---- MODULE Spec2Model ----
(***************************************************************************)
(* Voxel-kernel builders of geant4_cherenkov:                              *)
(*   src/analysis/build_cherenkov_kernel.py  (unweighted photon kernel)    *)
(*   src/analysis/build_dose_kernel.py       (energy-weighted dose kernel) *)
(*                                                                         *)
(* Lengths are integers in units of 0.001 cm. Quantities the code holds as *)
(* quotients (dv, the linspace edges, K) are exact rationals <<num, den>>  *)
(* with den > 0.  Sums of record weights are float64 sums in the code; the *)
(* model rounds every such addition to MantBits significant bits (round to *)
(* nearest, ties to even), so that the order of additions matters exactly  *)
(* as it does in the code.                                                 *)
(***************************************************************************)
EXTENDS Integers, Sequences, FiniteSets, TLC

VARIABLES
    env,              \* the run's inputs: command line, files on disk
    pc,               \* position of main()
    err,              \* "none", or the fatal error that ended the run
    n_photons,        \* cherenkov main: get_n_photons result
    n_primaries,      \* main: get_n_primaries result
    n_events,         \* dose main: distinct event ids
    bounds,           \* <<x_min, x_max, y_min, y_max, z_min, z_max>>
    edges,            \* <<x_edges, y_edges, z_edges>>
    dv,               \* nominal voxel size (rational)
    fpos,             \* byte offset of the open file in the running pass
    total_read,       \* records read by the running pass
    sum_w,            \* accumulation array (counts for cherenkov)
    sum_w2,           \* accumulation array of squared weights
    total_energy_all, \* dose accumulation pass: running sum of np.sum(w)
    event_ids,        \* count/scan pass: set of event ids seen
    scan,             \* scan pass: running min/max per axis
    welford,          \* event pass: [n_ev, mean_e, M2_e]
    cur_event,        \* event pass: [current_event_id, event_list]
    res,              \* main's locals after the accumulation pass
    out_files,        \* files written so far, in order
    stats,            \* kernel_stats.json as written
    corr              \* analyze_phsp_dose_correlation.py: the files and main's locals

vars == <<env, pc, err, n_photons, n_primaries, n_events, bounds, edges, dv,
          fpos, total_read, sum_w, sum_w2, total_energy_all, event_ids, scan,
          welford, cur_event, res, out_files, stats, corr>>

gridVars == <<bounds, edges, dv>>
passVars == <<fpos, total_read, sum_w, sum_w2, total_energy_all, event_ids, scan>>
eventVars == <<welford, cur_event>>
outVars == <<res, out_files, stats>>

-----------------------------------------------------------------------------
(* Bounds of the model *)

\* Significant bits of the model's floating-point sums (53 in the code).
MantBits == 8
\* Longest record file of the accumulation specification.
MaxRecords == 4
\* Largest chunk_size tried.
MaxChunk == 4

-----------------------------------------------------------------------------
(* Program constants, in units of 0.001 cm where they are lengths *)

VOXEL_SIZE_MIN_CM == 300
VOXEL_SIZE_MAX_CM == 800
TARGET_BINS_LARGEST_DIM == 100
BYTES_PER_PHOTON == 60
BYTES_PER_RECORD == 36

-----------------------------------------------------------------------------
(* Arithmetic *)

None == <<>>
Some(v) == <<v>>
IsNone(o) == Len(o) = 0
Val(o) == o[1]

Max2(a, b) == IF a >= b THEN a ELSE b
Min2(a, b) == IF a <= b THEN a ELSE b
Abs(a) == IF a < 0 THEN -a ELSE a

RECURSIVE Pow2(_)
Pow2(n) == IF n <= 0 THEN 1 ELSE 2 * Pow2(n - 1)

\* Rationals <<num, den>>, den > 0
RLt(a, b) == a[1] * b[2] < b[1] * a[2]
RLe(a, b) == a[1] * b[2] <= b[1] * a[2]
REq(a, b) == a[1] * b[2] = b[1] * a[2]
RInt(n) == <<n, 1>>

RECURSIVE GCD(_, _)
GCD(a, b) == IF b = 0 THEN a ELSE GCD(b, a % b)
RNorm(a) == LET g == GCD(Abs(a[1]), a[2]) IN <<a[1] \div g, a[2] \div g>>
RAdd(a, b) == RNorm(<<a[1] * b[2] + b[1] * a[2], a[2] * b[2]>>)
RSub(a, b) == RNorm(<<a[1] * b[2] - b[1] * a[2], a[2] * b[2]>>)
RMul(a, b) == RNorm(<<a[1] * b[1], a[2] * b[2]>>)
\* a / k for an integer k > 0
RDivI(a, k) == RNorm(<<a[1], a[2] * k>>)

\* The lower limit alone: np.maximum(v, lo)
np_clip_below(v, lo, hi) == IF RLt(v, lo) THEN lo ELSE v

\* np.clip(v, lo, hi) on rationals
np_clip(v, lo, hi) == IF RLt(v, lo) THEN lo ELSE IF RLt(hi, v) THEN hi ELSE v

\* math.ceil(p / q), q > 0
round_up(p, q) == -((-p) \div q)

\* round(p / q), q > 0: round half to even
round(p, q) ==
    LET f == p \div q
        r == p - f * q
    IN  IF 2 * r < q THEN f
        ELSE IF 2 * r > q THEN f + 1
        ELSE IF f % 2 = 0 THEN f ELSE f + 1

\* The integers of magnitude below 2^MantBits are floats
MantLimit == Pow2(MantBits)

\* The quantum of a float of magnitude a >= 2^MantBits: the power of two q
\* with 2^(MantBits-1) <= a \div q < 2^MantBits.
RECURSIVE Quantum(_, _)
Quantum(a, q) == IF a \div q < MantLimit THEN q ELSE Quantum(a, 2 * q)

\* Rounding of an exact integer result to MantBits significant bits.
FRound(x) ==
    IF Abs(x) < MantLimit THEN x
    ELSE LET a == Abs(x)
             q == Quantum(a, 1)
             m == round(a, q) * q
         IN  IF x < 0 THEN -m ELSE m

\* float64 addition, subtraction
FAdd(a, b) == FRound(a + b)
FSub(a, b) == FRound(a - b)

-----------------------------------------------------------------------------
(* Grid: get_water_bounds, get_voxel_edges *)

\* s / 2 of the code; the geometries of the model have even sizes
Half(s) == s \div 2

\* get_water_bounds(water_size_xyz_cm, water_position_cm, xy_range)
get_water_bounds(size, pos, xy_range) ==
    LET x_min == IF IsNone(xy_range) THEN pos[1] - Half(size[1]) ELSE Val(xy_range)[1]
        x_max == IF IsNone(xy_range) THEN pos[1] + Half(size[1]) ELSE Val(xy_range)[2]
        y_min == IF IsNone(xy_range) THEN pos[2] - Half(size[2]) ELSE Val(xy_range)[1]
        y_max == IF IsNone(xy_range) THEN pos[2] + Half(size[2]) ELSE Val(xy_range)[2]
        z_min == pos[3] - Half(size[3])
        z_max == pos[3] + Half(size[3])
    IN  <<x_min, x_max, y_min, y_max, z_min, z_max>>

\* np.linspace(start, stop, num, endpoint=False): the step is
\* (stop - start) / num and stop is not a point
np_linspace_open(start, stop, num) ==
    [i \in 1..num |-> <<start * num + (i - 1) * (stop - start), num>>]

\* np.linspace(start, stop, num), num >= 2: start + i * step, the last point
\* set to stop
np_linspace(start, stop, num) ==
    [i \in 1..num |->
        IF i = num THEN RInt(stop)
        ELSE <<start * (num - 1) + (i - 1) * (stop - start), num - 1>>]

\* dv = np.clip(L_max / TARGET_BINS_LARGEST_DIM, VOXEL_SIZE_MIN_CM, VOXEL_SIZE_MAX_CM)
NominalVoxelSize(b) ==
    LET L_max == Max2(b[2] - b[1], Max2(b[4] - b[3], b[6] - b[5]))
    IN  np_clip(<<L_max, TARGET_BINS_LARGEST_DIM>>,
                RInt(VOXEL_SIZE_MIN_CM), RInt(VOXEL_SIZE_MAX_CM))

\* n = max(1, int(round(extent / dv)))
NBins(extent, d) == Max2(1, round(extent * d[2], d[1]))

\* x_edges = np.linspace(x_min, x_max, n_x + 1)
AxisEdges(lo, hi, d) == np_linspace(lo, hi, NBins(hi - lo, d) + 1)

\* get_voxel_edges(bounds): [edges, dv]
get_voxel_edges(b) ==
    LET d == NominalVoxelSize(b)
    IN  [edges |-> <<AxisEdges(b[1], b[2], d),
                     AxisEdges(b[3], b[4], d),
                     AxisEdges(b[5], b[6], d)>>,
         dv |-> d]

-----------------------------------------------------------------------------
(* Records and files *)

\* One decoded record.  pos is (x, y, z) of a dose record and (initX, initY,
\* initZ) of a photon record; rel is (dx, dy, dz) of a dose record.
Rec(p, r, w, e) == [pos |-> p, rel |-> r, energy |-> w, event_id |-> e]

\* cols = ("x","y","z") if use_xyz else ("dx","dy","dz")
Cols(use_xyz, r) == IF use_xyz THEN r.pos ELSE r.rel

\* os.path.getsize: whole records plus the bytes of a truncated last record
FileSize(e, width) == Len(e.file) * width + e.extra_bytes

\* raw = f.read(chunk_size * width) at offset pos: the number of bytes returned
RawLen(e, width, pos) == Min2(e.chunk_size * width, FileSize(e, width) - pos)

\* A read loop that stops at the first read shorter than a whole chunk
NRead_FullChunksOnly(e, width, pos) ==
    IF RawLen(e, width, pos) = e.chunk_size * width THEN e.chunk_size ELSE 0

\* n_read = len(raw) // width
NRead(e, width, pos) == RawLen(e, width, pos) \div width

\* np.frombuffer(raw, dtype, count=n_read): the records of the chunk
Chunk(e, width, pos) ==
    SubSeq(e.file, pos \div width + 1, pos \div width + NRead(e, width, pos))

-----------------------------------------------------------------------------
(* np.histogramdd *)

\* np.searchsorted(a, v, side="left"): an on-edge coordinate falls in the bin
\* below the edge
searchsorted_left(a, v) == Cardinality({i \in DOMAIN a : RLt(a[i], RInt(v))})

\* np.searchsorted(a, v, side="right") on an ascending array a
searchsorted_right(a, v) == Cardinality({i \in DOMAIN a : RLe(a[i], RInt(v))})

\* Bins that are right-open up to the last: a coordinate equal to the last
\* edge falls in the upper outlier bin
BinOf_RightOpen(a, v) == searchsorted_right(a, v)

\* The bin number histogramdd gives a coordinate: 0 and Len(a) are the
\* outlier bins; a coordinate equal to the last edge moves down one bin.
BinOf(a, v) ==
    IF REq(RInt(v), a[Len(a)]) THEN searchsorted_right(a, v) - 1
    ELSE searchsorted_right(a, v)

\* The shape of the histogram of edges e
GridShape(e) == <<Len(e[1]) - 1, Len(e[2]) - 1, Len(e[3]) - 1>>

\* An array of shape sh is held as its buffer in memory order (last axis
\* fastest); ravel_multi_index is the place of element b, counted from 1
ravel_multi_index(b, sh) == ((b[1] - 1) * sh[2] + (b[2] - 1)) * sh[3] + b[3]

NVoxels(e) == GridShape(e)[1] * GridShape(e)[2] * GridShape(e)[3]
Voxels(e) == 1..NVoxels(e)

\* The voxel of point p, 0 when a coordinate of p falls in an outlier bin
\* (histogramdd strips the outlier bins from its result)
VoxelOf(e, p) ==
    LET b == <<BinOf(e[1], p[1]), BinOf(e[2], p[2]), BinOf(e[3], p[3])>>
        sh == GridShape(e)
    IN  IF \A k \in 1..3 : b[k] >= 1 /\ b[k] <= sh[k]
        THEN ravel_multi_index(b, sh) ELSE 0

InGrid(e, p) == VoxelOf(e, p) \in Voxels(e)

\* histogramdd rejects bin edges that decrease
Monotonic(a) == \A i \in 1..(Len(a) - 1) : RLe(a[i], a[i + 1])
EdgesAccepted(e) == Monotonic(e[1]) /\ Monotonic(e[2]) /\ Monotonic(e[3])

zeros(e) == [v \in Voxels(e) |-> 0]

\* np.bincount(xy, weights) on the records lo..hi: the records are added to
\* acc in file order, each addition rounded; the lower half of the records is
\* added before the upper half is entered
RECURSIVE BinCount(_, _, _, _, _, _)
BinCount(xyz, w, e, lo, hi, acc) ==
    IF lo > hi THEN acc
    ELSE IF lo = hi
    THEN LET v == VoxelOf(e, xyz[lo])
         IN  IF v \in DOMAIN acc THEN [acc EXCEPT ![v] = FAdd(@, w[lo])] ELSE acc
    ELSE LET mid == (lo + hi) \div 2
             lower == BinCount(xyz, w, e, lo, mid, acc)
         IN  IF DOMAIN lower = {} THEN lower
             ELSE BinCount(xyz, w, e, mid + 1, hi, lower)

\* np.histogramdd(xyz, bins=bins, weights=w)
histogramdd_w(xyz, e, w) == BinCount(xyz, w, e, 1, Len(xyz), zeros(e))

\* np.bincount(xy) on the records lo..hi: integer counts
RECURSIVE Count(_, _, _, _, _)
Count(xyz, e, lo, hi, acc) ==
    IF lo > hi THEN acc
    ELSE IF lo = hi
    THEN LET v == VoxelOf(e, xyz[lo])
         IN  IF v \in DOMAIN acc THEN [acc EXCEPT ![v] = @ + 1] ELSE acc
    ELSE LET mid == (lo + hi) \div 2
             lower == Count(xyz, e, lo, mid, acc)
         IN  IF DOMAIN lower = {} THEN lower
             ELSE Count(xyz, e, mid + 1, hi, lower)

\* np.histogramdd(xyz, bins=bins): the counts as floats
histogramdd(xyz, e) ==
    LET c == Count(xyz, e, 1, Len(xyz), zeros(e))
    IN  [v \in Voxels(e) |-> FRound(c[v])]

\* a = b on arrays
ArrAdd_Assign(a, b) == b

\* a += b on arrays
ArrAdd(a, b) == [v \in DOMAIN a |-> FAdd(a[v], b[v])]

\* np.sum of a buffer: acc plus the elements lo..hi, added one by one
\* in memory order, each addition rounded; the sum of the lower half is
\* evaluated before the upper half is entered.  This is the plain loop that
\* numpy runs on fewer than 8 elements.  On a longer buffer numpy adds
\* pairwise, which gives the same sum whenever no partial sum is rounded.
RECURSIVE SumRange(_, _, _, _)
SumRange(a, lo, hi, acc) ==
    IF lo > hi THEN acc
    ELSE IF lo = hi THEN FAdd(acc, a[lo])
    ELSE LET mid == (lo + hi) \div 2
             lower == SumRange(a, lo, mid, acc)
         IN  IF lower = 0 THEN SumRange(a, mid + 1, hi, 0)
             ELSE SumRange(a, mid + 1, hi, lower)
np_sum(s) == SumRange(s, 1, Len(s), 0)
np_sum3(a) == SumRange(a, 1, Cardinality(DOMAIN a), 0)

\* [f(s[1]), ..., f(s[n])] for the columns of a chunk
Positions(use_xyz, recs) == [i \in 1..Len(recs) |-> Cols(use_xyz, recs[i])]
Energies(recs) == [i \in 1..Len(recs) |-> recs[i].energy]
\* w * w in float64
Squares(w) == [i \in 1..Len(w) |-> FRound(w[i] * w[i])]

-----------------------------------------------------------------------------
(* Run metadata: get_n_photons, get_n_primaries *)

Ok(v) == [ok |-> TRUE, val |-> v]
Raise(k) == [ok |-> FALSE, val |-> k]

\* _validate_header_if_present(phsp_path): TRUE when it raises.  The fields
\* format_version and bytes_per_photon of a header hold what the loop leaves
\* in its locals: int(float(v)) of the last line whose key names the field,
\* None when no line does or no value parses.
HeaderRejected(e) ==
    /\ ~IsNone(e.header)
    /\ \/ (~IsNone(Val(e.header).format_version)
             /\ Val(Val(e.header).format_version) # 2)
       \/ (~IsNone(Val(e.header).bytes_per_photon)
             /\ Val(Val(e.header).bytes_per_photon) # BYTES_PER_PHOTON)

\* The count taken from run_meta without comparing it with the file size
get_n_photons_TrustMeta(e) ==
    LET file_size == FileSize(e, BYTES_PER_PHOTON)
        from_file == file_size \div BYTES_PER_PHOTON
    IN  IF file_size % BYTES_PER_PHOTON # 0 THEN Raise("FormatError")
        ELSE IF HeaderRejected(e) THEN Raise("FormatError")
        ELSE IF ~IsNone(e.run_meta) /\ ~IsNone(Val(e.run_meta).total_photons)
             THEN Ok(Val(Val(e.run_meta).total_photons))
        ELSE Ok(from_file)

\* get_n_photons(phsp_path, run_meta)
get_n_photons(e) ==
    LET file_size == FileSize(e, BYTES_PER_PHOTON)
        from_file == file_size \div BYTES_PER_PHOTON
    IN  IF file_size % BYTES_PER_PHOTON # 0 THEN Raise("FormatError")
        ELSE IF HeaderRejected(e) THEN Raise("FormatError")
        ELSE IF ~IsNone(e.run_meta) /\ ~IsNone(Val(e.run_meta).total_photons)
             THEN IF Val(Val(e.run_meta).total_photons) # from_file
                  THEN Raise("FormatError")
                  ELSE Ok(Val(Val(e.run_meta).total_photons))
        ELSE Ok(from_file)

\* _validate_n_primaries(n)
validate_n_primaries(n) == IF n <= 0 THEN Raise("ConfigError") ELSE Ok(n)

\* The header loop of get_n_primaries: the lines whose key names the
\* primaries, in file order, each an unparsable value (None) or a number.
\* A value that fails validation raises ValueError inside the try block,
\* which the except clause swallows like a parse failure.
RECURSIVE HeaderPrimaries(_, _)
HeaderPrimaries(lines, i) ==
    IF i > Len(lines) THEN None
    ELSE IF ~IsNone(lines[i]) /\ validate_n_primaries(Val(lines[i])).ok
         THEN Some(Val(lines[i]))
         ELSE HeaderPrimaries(lines, i + 1)

\* if run_meta is not None and "events" in run_meta
HasEvents(e) == ~IsNone(e.run_meta) /\ ~IsNone(Val(e.run_meta).events)
\* the header file exists and one of its lines yields a count
HeaderCount(e) ==
    IF IsNone(e.header) THEN None ELSE HeaderPrimaries(Val(e.header).primaries, 1)
\* config exists and config["simulation"] has one of the four keys
HasSim(e) == e.config_exists /\ ~IsNone(e.sim_n_primaries)

\* The resolution in which --n-primaries, when given, overrides the files
get_n_primaries_ArgFirst(e) ==
    IF ~IsNone(e.arg_n_primaries) THEN validate_n_primaries(Val(e.arg_n_primaries))
    ELSE IF HasEvents(e) THEN validate_n_primaries(Val(Val(e.run_meta).events))
    ELSE IF ~IsNone(HeaderCount(e)) THEN Ok(Val(HeaderCount(e)))
    ELSE IF HasSim(e) THEN validate_n_primaries(Val(e.sim_n_primaries))
    ELSE Raise("ConfigError")

\* get_n_primaries(run_meta, config_path, header_path, argparse_n_primaries)
get_n_primaries(e) ==
    IF HasEvents(e) THEN validate_n_primaries(Val(Val(e.run_meta).events))
    ELSE IF ~IsNone(HeaderCount(e)) THEN Ok(Val(HeaderCount(e)))
    ELSE IF HasSim(e) THEN validate_n_primaries(Val(e.sim_n_primaries))
    ELSE IF ~IsNone(e.arg_n_primaries) THEN validate_n_primaries(Val(e.arg_n_primaries))
    ELSE Raise("ConfigError")

\* load_config(config_path): raises when a geometry key is missing
load_config(e) == IF IsNone(e.geometry) THEN Raise("ConfigError") ELSE Ok(Val(e.geometry))

-----------------------------------------------------------------------------
(* State after construction *)

ResInit ==
    [n_in_grid |-> 0, energy_in_grid |-> 0, energy_outside |-> 0,
     energy_outside_clamped |-> FALSE, total_energy_MeV |-> 0,
     K |-> <<>>, sigma2 |-> <<>>, warning |-> FALSE,
     uncertainty_approximate |-> TRUE, n_events_used |-> 0]

WelfordInit == [n_ev |-> 0, mean_e |-> <<>>, M2_e |-> <<>>]
CurEventInit == [current_event_id |-> None, event_list |-> <<>>]

\* analyze_phsp_dose_correlation.py before main() has read anything: the two
\* files on disk, and main's locals unset
CorrInit ==
    [phsp_file |-> <<>>, dose_file |-> <<>>, phsp |-> <<>>, dose |-> <<>>,
     use_sparse |-> FALSE, n_events |-> 0, n_events_actual |-> 0,
     all_event_ids |-> <<>>, phsp_idx |-> <<>>, dose_idx |-> <<>>,
     photons_per_event |-> <<>>, dose_per_event |-> <<>>,
     electron_dose_per_event |-> <<>>]

\* main() entered with inputs e
InitRun(e) ==
    /\ env = e
    /\ pc = "start"
    /\ err = "none"
    /\ n_photons = 0
    /\ n_primaries = 0
    /\ n_events = 0
    /\ bounds = <<>>
    /\ edges = <<>>
    /\ dv = RInt(0)
    /\ fpos = 0
    /\ total_read = 0
    /\ sum_w = <<>>
    /\ sum_w2 = <<>>
    /\ total_energy_all = 0
    /\ event_ids = {}
    /\ scan = None
    /\ welford = WelfordInit
    /\ cur_event = CurEventInit
    /\ res = ResInit
    /\ out_files = {}
    /\ stats = None
    /\ corr = CorrInit

\* The run ends with a fatal error of kind k
Abort(k) == pc' = "aborted" /\ err' = k
Goto(l) == pc' = l /\ err' = err

IsCherenkov == env.builder = "cherenkov"
IsDose == env.builder = "dose"
Width == IF IsCherenkov THEN BYTES_PER_PHOTON ELSE BYTES_PER_RECORD

\* The files that save_arrays, save_kernel_stats and the plot functions write
ArrayFiles ==
    {IF IsCherenkov THEN "kernel_01_counts.npy" ELSE "kernel_01_energy_sum.npy",
     "kernel_02_normalized.npy", "kernel_03_uncertainty.npy",
     "kernel_04_voxel_edges.npz"}
StatsFiles == {"kernel_stats.json", "kernel_stats.txt"}
PlotFiles ==
    {"plot_01_xy_slice_center_z.png", "plot_02_xz_slice_center_y.png",
     "plot_03_depth_profile_Kz.png", "plot_04_radial_profile_Kr.png"}

-----------------------------------------------------------------------------
(* build_cherenkov_kernel.py: main() *)

\* lines 507-515: the input files exist
C_CheckInputs ==
    /\ pc = "start" /\ IsCherenkov
    /\ IF ~env.input_exists \/ ~env.config_exists THEN Abort("IOError") ELSE Goto("meta")
    /\ UNCHANGED <<env, corr, n_photons, n_primaries, n_events, gridVars, passVars,
                   eventVars, outVars>>

\* lines 518-520: run_meta = load_run_meta; n_photons = get_n_photons
C_GetNPhotons ==
    /\ pc = "meta" /\ IsCherenkov
    /\ LET r == get_n_photons(env)
       IN  IF r.ok THEN Goto("primaries") /\ n_photons' = r.val
           ELSE Abort(r.val) /\ n_photons' = n_photons
    /\ UNCHANGED <<env, corr, n_primaries, n_events, gridVars, passVars, eventVars, outVars>>

\* cherenkov lines 523-525, dose lines 598-601: n_primaries = get_n_primaries
ResolvePrimaries ==
    /\ pc = "primaries"
    /\ LET r == get_n_primaries(env)
       IN  IF r.ok THEN Goto(IF IsCherenkov THEN "config" ELSE "bounds")
                        /\ n_primaries' = r.val
           ELSE Abort(r.val) /\ n_primaries' = n_primaries
    /\ UNCHANGED <<env, corr, n_photons, n_events, gridVars, passVars, eventVars, outVars>>

\* lines 528-530: load_config, get_water_bounds
C_LoadConfig ==
    /\ pc = "config" /\ IsCherenkov
    /\ LET g == load_config(env)
       IN  IF g.ok
           THEN Goto("grid")
                /\ bounds' = get_water_bounds(g.val.size, g.val.pos, env.xy_range)
           ELSE Abort(g.val) /\ bounds' = bounds
    /\ UNCHANGED <<env, corr, n_photons, n_primaries, n_events, edges, dv, passVars,
                   eventVars, outVars>>

\* A comparison that warns only of a surplus of events
EventsWarning_Gt(ne, np) == ne > np

\* dose line 624: n_events_vs_n_primaries_warning = n_events != n_primaries
EventsWarning(ne, np) == ne # np

\* cherenkov lines 537-544, dose lines 624-636: the warning flag (dose), the
\* grid, and the entry of the accumulation pass, which allocates its arrays
\* and opens the file
MakeGrid ==
    /\ pc = "grid"
    /\ LET g == get_voxel_edges(bounds)
       IN  /\ edges' = g.edges
           /\ dv' = g.dv
           /\ sum_w' = zeros(g.edges)
           /\ sum_w2' = zeros(g.edges)
    /\ res' = IF IsDose
              THEN [res EXCEPT !.warning = EventsWarning(n_events, n_primaries)]
              ELSE res
    /\ fpos' = 0
    /\ total_read' = 0
    /\ total_energy_all' = 0
    /\ Goto("accum")
    /\ UNCHANGED <<env, corr, n_photons, n_primaries, n_events, bounds, event_ids, scan,
                   eventVars, out_files, stats>>

\* build_histogram_chunked, one iteration of the read loop that decodes a
\* chunk (lines 263-274)
C_AccumChunk ==
    /\ pc = "accum" /\ IsCherenkov
    /\ NRead(env, BYTES_PER_PHOTON, fpos) > 0
    /\ LET raw == RawLen(env, BYTES_PER_PHOTON, fpos)
           data == Chunk(env, BYTES_PER_PHOTON, fpos)
       IN  IF raw % BYTES_PER_PHOTON # 0 \/ ~EdgesAccepted(edges)
           THEN \* np.frombuffer without count, or histogramdd, raises ValueError
                Abort("ValueError") /\ UNCHANGED <<fpos, total_read, sum_w>>
           ELSE /\ Goto("accum")
                /\ sum_w' = ArrAdd(sum_w, histogramdd(Positions(TRUE, data), edges))
                /\ total_read' = total_read + Len(data)
                /\ fpos' = fpos + raw
    /\ UNCHANGED <<env, corr, n_photons, n_primaries, n_events, gridVars, sum_w2,
                   total_energy_all, event_ids, scan, eventVars, outVars>>

\* compute_kernel_and_uncertainty(counts, n_primaries): K = counts / N and
\* sigma = sqrt(max(counts, 0)) / N, the latter held as its square
compute_kernel_and_uncertainty(counts, n) ==
    [K |-> [v \in DOMAIN counts |-> <<counts[v], n>>],
     sigma2 |-> [v \in DOMAIN counts |-> <<Max2(counts[v], 0), n * n>>]]

\* build_histogram_chunked leaves the loop (lines 264-268) and returns;
\* main lines 545-550: n_in_grid, K, sigma
C_AccumEnd ==
    /\ pc = "accum" /\ IsCherenkov
    /\ NRead(env, BYTES_PER_PHOTON, fpos) = 0
    /\ LET k == compute_kernel_and_uncertainty(sum_w, n_primaries)
       IN  res' = [res EXCEPT !.n_in_grid = np_sum3(sum_w),
                              !.K = k.K, !.sigma2 = k.sigma2]
    /\ Goto("save_arrays")
    /\ UNCHANGED <<env, corr, n_photons, n_primaries, n_events, gridVars, passVars,
                   eventVars, out_files, stats>>

-----------------------------------------------------------------------------
(* build_dose_kernel.py: main() up to the grid *)

\* lines 591-596: the dose file exists
D_CheckInput ==
    /\ pc = "start" /\ IsDose
    /\ IF ~env.input_exists THEN Abort("IOError") ELSE Goto("primaries")
    /\ UNCHANGED <<env, corr, n_photons, n_primaries, n_events, gridVars, passVars,
                   eventVars, outVars>>

\* lines 603-613 (default mode): config bounds, then count_unique_events_chunked
\* is entered
D_LoadConfig ==
    /\ pc = "bounds" /\ IsDose /\ env.use_xyz
    /\ IF ~env.config_exists THEN Abort("IOError") /\ bounds' = bounds
       ELSE LET g == load_config(env)
            IN  IF g.ok
                THEN Goto("count")
                     /\ bounds' = get_water_bounds(g.val.size, g.val.pos, env.xy_range)
                ELSE Abort(g.val) /\ bounds' = bounds
    /\ event_ids' = {}
    /\ total_read' = 0
    /\ fpos' = 0
    /\ UNCHANGED <<env, corr, n_photons, n_primaries, n_events, edges, dv, sum_w, sum_w2,
                   total_energy_all, scan, eventVars, outVars>>

\* The identifier of the first record of the chunk alone
ChunkEventIds_First(data) == IF Len(data) = 0 THEN {} ELSE {data[1].event_id}

\* np.unique(data["event_id"])
ChunkEventIds(data) == {data[i].event_id : i \in 1..Len(data)}

\* count_unique_events_chunked, one iteration that decodes a chunk (lines
\* 191-201); the loop is left when total_read reaches n_total
D_CountChunk ==
    /\ pc = "count" /\ IsDose
    /\ NRead(env, BYTES_PER_RECORD, fpos) > 0
    /\ LET data == Chunk(env, BYTES_PER_RECORD, fpos)
           n_total == FileSize(env, BYTES_PER_RECORD) \div BYTES_PER_RECORD
       IN  /\ event_ids' = event_ids \cup ChunkEventIds(data)
           /\ total_read' = total_read + Len(data)
           /\ fpos' = fpos + RawLen(env, BYTES_PER_RECORD, fpos)
           /\ IF total_read' >= n_total
              THEN Goto("grid") /\ n_events' = Cardinality(event_ids')
              ELSE Goto("count") /\ n_events' = n_events
    /\ UNCHANGED <<env, corr, n_photons, n_primaries, gridVars, sum_w, sum_w2,
                   total_energy_all, scan, eventVars, outVars>>

\* count_unique_events_chunked leaves the loop on an empty read (lines 192-196)
D_CountEnd ==
    /\ pc = "count" /\ IsDose
    /\ NRead(env, BYTES_PER_RECORD, fpos) = 0
    /\ n_events' = Cardinality(event_ids)
    /\ Goto("grid")
    /\ UNCHANGED <<env, corr, n_photons, n_primaries, gridVars, passVars, eventVars, outVars>>

\* lines 615-618 (--use-dxdydz): scan_dose_bounds_chunked is entered and
\* checks the file size (lines 211-219)
D_ScanOpen ==
    /\ pc = "bounds" /\ IsDose /\ ~env.use_xyz
    /\ IF FileSize(env, BYTES_PER_RECORD) % BYTES_PER_RECORD # 0
       THEN Abort("FormatError")
       ELSE Goto("scan")
    /\ scan' = None
    /\ event_ids' = {}
    /\ total_read' = 0
    /\ fpos' = 0
    /\ UNCHANGED <<env, corr, n_photons, n_primaries, n_events, gridVars, sum_w, sum_w2,
                   total_energy_all, eventVars, outVars>>

\* min / max of one column of a chunk
RECURSIVE ColMin(_, _, _)
ColMin(pts, k, i) ==
    IF i = Len(pts) THEN pts[i][k] ELSE Min2(pts[i][k], ColMin(pts, k, i + 1))
RECURSIVE ColMax(_, _, _)
ColMax(pts, k, i) ==
    IF i = Len(pts) THEN pts[i][k] ELSE Max2(pts[i][k], ColMax(pts, k, i + 1))

\* The bounds of the last chunk read in place of the running minimum and
\* maximum
ScanUpdate_LastChunk(sc, pts) ==
    Some([lo |-> [k \in 1..3 |-> ColMin(pts, k, 1)],
          hi |-> [k \in 1..3 |-> ColMax(pts, k, 1)]])

\* lines 229-232: the running min/max after a chunk; sc is None while they
\* are still +inf / -inf
ScanUpdate(sc, pts) ==
    LET lo == [k \in 1..3 |-> ColMin(pts, k, 1)]
        hi == [k \in 1..3 |-> ColMax(pts, k, 1)]
    IN  IF IsNone(sc) THEN Some([lo |-> lo, hi |-> hi])
        ELSE Some([lo |-> [k \in 1..3 |-> Min2(Val(sc).lo[k], lo[k])],
                   hi |-> [k \in 1..3 |-> Max2(Val(sc).hi[k], hi[k])]])

\* scan_dose_bounds_chunked, one iteration that decodes a chunk (lines 222-236)
D_ScanChunk ==
    /\ pc = "scan" /\ IsDose
    /\ NRead(env, BYTES_PER_RECORD, fpos) > 0
    /\ LET data == Chunk(env, BYTES_PER_RECORD, fpos)
       IN  /\ scan' = ScanUpdate(scan, Positions(FALSE, data))
           /\ event_ids' = event_ids \cup ChunkEventIds(data)
           /\ total_read' = total_read + Len(data)
           /\ fpos' = fpos + RawLen(env, BYTES_PER_RECORD, fpos)
    /\ Goto("scan")
    /\ UNCHANGED <<env, corr, n_photons, n_primaries, n_events, gridVars, sum_w, sum_w2,
                   total_energy_all, eventVars, outVars>>

\* margin_frac = 0.01 of a span; the coordinates of the model are multiples
\* of 0.1 cm, which makes the margin a whole number of units
Margin(span) == span \div 100
\* x_max = x_min + 0.1
ZERO_WIDTH_CM == 100

\* lines 240-255: a zero-width axis is widened, then a margin is added on
\* each side
ScanBounds(sc) ==
    LET lo == sc.lo
        hi == [k \in 1..3 |-> IF sc.hi[k] <= sc.lo[k] THEN sc.lo[k] + ZERO_WIDTH_CM
                              ELSE sc.hi[k]]
        m == [k \in 1..3 |-> Margin(hi[k] - lo[k])]
    IN  <<lo[1] - m[1], hi[1] + m[1], lo[2] - m[2], hi[2] + m[2],
          lo[3] - m[3], hi[3] + m[3]>>

\* scan_dose_bounds_chunked leaves the loop and returns (lines 223-227,
\* 238-256)
D_ScanEnd ==
    /\ pc = "scan" /\ IsDose
    /\ NRead(env, BYTES_PER_RECORD, fpos) = 0
    /\ IF total_read = 0
       THEN Abort("ValueError") /\ UNCHANGED <<bounds, n_events>>
       ELSE /\ Goto("grid")
            /\ bounds' = ScanBounds(Val(scan))
            /\ n_events' = Cardinality(event_ids)
    /\ UNCHANGED <<env, corr, n_photons, n_primaries, edges, dv, passVars, eventVars, outVars>>

-----------------------------------------------------------------------------
(* build_dose_kernel.py: the accumulation pass and the normalisation *)

\* build_dose_histogram_chunked, one iteration that decodes a chunk (lines
\* 276-291)
D_AccumChunk ==
    /\ pc = "accum" /\ IsDose
    /\ NRead(env, BYTES_PER_RECORD, fpos) > 0
    /\ LET data == Chunk(env, BYTES_PER_RECORD, fpos)
           xyz == Positions(env.use_xyz, data)
           w == Energies(data)
       IN  IF ~EdgesAccepted(edges)
           THEN Abort("ValueError")
                /\ UNCHANGED <<fpos, total_read, sum_w, sum_w2, total_energy_all>>
           ELSE /\ Goto("accum")
                /\ sum_w' = ArrAdd(sum_w, histogramdd_w(xyz, edges, w))
                /\ sum_w2' = ArrAdd(sum_w2, histogramdd_w(xyz, edges, Squares(w)))
                /\ total_read' = total_read + Len(data)
                /\ total_energy_all' = FAdd(total_energy_all, np_sum(w))
                /\ fpos' = fpos + RawLen(env, BYTES_PER_RECORD, fpos)
    /\ UNCHANGED <<env, corr, n_photons, n_primaries, n_events, gridVars, event_ids, scan,
                   eventVars, outVars>>

\* The clamp with the total left as it was computed before the clamp
ClampOutside_KeepTotal(energy_in_grid, energy_outside) ==
    [total_energy_MeV |-> FAdd(energy_in_grid, energy_outside),
     energy_outside |-> Max2(energy_outside, 0),
     energy_outside_clamped |-> energy_outside < 0]

\* main lines 637-641 on the pass's return values: the clamp of a negative
\* outside energy
ClampOutside(energy_in_grid, energy_outside) ==
    IF energy_outside < 0
    THEN [total_energy_MeV |-> energy_in_grid, energy_outside |-> 0,
          energy_outside_clamped |-> TRUE]
    ELSE [total_energy_MeV |-> FAdd(energy_in_grid, energy_outside),
          energy_outside |-> energy_outside, energy_outside_clamped |-> FALSE]

\* The normalisation done in place, sum_w /= n_primaries, so that the
\* accumulator itself holds the kernel afterwards
D_AccumEnd_InPlace ==
    /\ pc = "accum" /\ IsDose
    /\ NRead(env, BYTES_PER_RECORD, fpos) = 0
    /\ LET energy_in_grid == np_sum3(sum_w)
           energy_outside == FSub(total_energy_all, energy_in_grid)
           c == ClampOutside(energy_in_grid, energy_outside)
       IN  res' = [res EXCEPT !.energy_in_grid = energy_in_grid,
                              !.energy_outside = c.energy_outside,
                              !.energy_outside_clamped = c.energy_outside_clamped,
                              !.total_energy_MeV = c.total_energy_MeV,
                              !.K = [v \in DOMAIN sum_w |-> <<sum_w[v], n_primaries>>]]
    /\ sum_w' = [v \in DOMAIN sum_w |-> sum_w[v] \div n_primaries]
    /\ Goto("uncertainty")
    /\ UNCHANGED <<env, corr, n_photons, n_primaries, n_events, gridVars, fpos, total_read,
                   sum_w2, total_energy_all, event_ids, scan, eventVars, out_files, stats>>

\* build_dose_histogram_chunked leaves the loop and returns (lines 277-281,
\* 293-295); main lines 637-645: totals, clamp, K
D_AccumEnd ==
    /\ pc = "accum" /\ IsDose
    /\ NRead(env, BYTES_PER_RECORD, fpos) = 0
    /\ LET energy_in_grid == np_sum3(sum_w)
           energy_outside == FSub(total_energy_all, energy_in_grid)
           c == ClampOutside(energy_in_grid, energy_outside)
       IN  res' = [res EXCEPT !.energy_in_grid = energy_in_grid,
                              !.energy_outside = c.energy_outside,
                              !.energy_outside_clamped = c.energy_outside_clamped,
                              !.total_energy_MeV = c.total_energy_MeV,
                              !.K = [v \in DOMAIN sum_w |-> <<sum_w[v], n_primaries>>]]
    /\ Goto("uncertainty")
    /\ UNCHANGED <<env, corr, n_photons, n_primaries, n_events, gridVars, passVars,
                   eventVars, out_files, stats>>

\* compute_kernel_fast(sum_w, sum_w2, n_primaries): K = sum_w / N and
\* sigma = sqrt(max(sum_w2, 0)) / N, the latter held as its square
compute_kernel_fast(sw, sw2, n) ==
    [K |-> [v \in DOMAIN sw |-> <<sw[v], n>>],
     sigma2 |-> [v \in DOMAIN sw2 |-> <<Max2(sw2[v], 0), n * n>>]]

\* main lines 651-652: fast mode
D_FastSigma ==
    /\ pc = "uncertainty" /\ IsDose /\ env.uncertainty_mode = "fast"
    /\ res' = [res EXCEPT !.sigma2 = compute_kernel_fast(sum_w, sum_w2, n_primaries).sigma2]
    /\ Goto("save_arrays")
    /\ UNCHANGED <<env, corr, n_photons, n_primaries, n_events, gridVars, passVars,
                   eventVars, out_files, stats>>

-----------------------------------------------------------------------------
(* build_dose_kernel.py: build_event_level_uncertainty *)

\* An ordering of main that saves the arrays of the accumulation pass before
\* it enters the event-level pass
D_EventOpen_SaveFirst ==
    /\ pc = "uncertainty" /\ IsDose /\ env.uncertainty_mode = "event"
    /\ welford' = [n_ev |-> 0,
                   mean_e |-> [v \in Voxels(edges) |-> RInt(0)],
                   M2_e |-> [v \in Voxels(edges) |-> RInt(0)]]
    /\ cur_event' = CurEventInit
    /\ fpos' = 0
    /\ total_read' = 0
    /\ out_files' = out_files \cup ArrayFiles
    /\ Goto("event")
    /\ UNCHANGED <<env, corr, n_photons, n_primaries, n_events, gridVars, sum_w, sum_w2,
                   total_energy_all, event_ids, scan, res, stats>>

\* The event-level pass entered on the file handle of the accumulation pass,
\* which stands at the end of the file
D_EventOpen_NoRewind ==
    /\ pc = "uncertainty" /\ IsDose /\ env.uncertainty_mode = "event"
    /\ welford' = [n_ev |-> 0,
                   mean_e |-> [v \in Voxels(edges) |-> RInt(0)],
                   M2_e |-> [v \in Voxels(edges) |-> RInt(0)]]
    /\ cur_event' = CurEventInit
    /\ Goto("event")
    /\ UNCHANGED <<env, corr, n_photons, n_primaries, n_events, gridVars, passVars, outVars>>

\* main lines 653-655: event mode; the pass is entered (lines 311-324)
D_EventOpen ==
    /\ pc = "uncertainty" /\ IsDose /\ env.uncertainty_mode = "event"
    /\ welford' = [n_ev |-> 0,
                   mean_e |-> [v \in Voxels(edges) |-> RInt(0)],
                   M2_e |-> [v \in Voxels(edges) |-> RInt(0)]]
    /\ cur_event' = CurEventInit
    /\ fpos' = 0
    /\ total_read' = 0
    /\ Goto("event")
    /\ UNCHANGED <<env, corr, n_photons, n_primaries, n_events, gridVars, sum_w, sum_w2,
                   total_energy_all, event_ids, scan, outVars>>

\* The update with M2 += delta * delta, the deviation from the old mean
\* squared
flush_event_old_mean(s, use_xyz, e, recs) ==
    IF Len(recs) = 0 THEN s
    ELSE LET H == histogramdd_w(Positions(use_xyz, recs), e, Energies(recs))
             n == s.n_ev + 1
             delta == [v \in DOMAIN s.mean_e |-> RSub(RInt(H[v]), s.mean_e[v])]
             mean == [v \in DOMAIN s.mean_e |-> RAdd(s.mean_e[v], RDivI(delta[v], n))]
             M2 == [v \in DOMAIN s.M2_e |-> RAdd(s.M2_e[v], RMul(delta[v], delta[v]))]
         IN  [n_ev |-> n, mean_e |-> mean, M2_e |-> M2]

\* The update that returns early when the event left nothing in the grid
flush_event_skip_zero(s, use_xyz, e, recs) ==
    LET H == histogramdd_w(Positions(use_xyz, recs), e, Energies(recs))
        n == s.n_ev + 1
        delta == [v \in DOMAIN s.mean_e |-> RSub(RInt(H[v]), s.mean_e[v])]
        mean == [v \in DOMAIN s.mean_e |-> RAdd(s.mean_e[v], RDivI(delta[v], n))]
        M2 == [v \in DOMAIN s.M2_e |->
                 RAdd(s.M2_e[v], RMul(delta[v], RSub(RInt(H[v]), mean[v])))]
    IN  IF Len(recs) = 0 \/ \A v \in DOMAIN H : H[v] = 0 THEN s
        ELSE [n_ev |-> n, mean_e |-> mean, M2_e |-> M2]

\* flush_event(eid, xyz, w) (lines 326-336) on Welford state s
flush_event(s, use_xyz, e, recs) ==
    IF Len(recs) = 0 THEN s
    ELSE LET H == histogramdd_w(Positions(use_xyz, recs), e, Energies(recs))
             n == s.n_ev + 1
             delta == [v \in DOMAIN s.mean_e |-> RSub(RInt(H[v]), s.mean_e[v])]
             mean == [v \in DOMAIN s.mean_e |-> RAdd(s.mean_e[v], RDivI(delta[v], n))]
             M2 == [v \in DOMAIN s.M2_e |->
                      RAdd(s.M2_e[v], RMul(delta[v], RSub(RInt(H[v]), mean[v])))]
         IN  [n_ev |-> n, mean_e |-> mean, M2_e |-> M2]

\* The record loop that closes an event only when the identifier grows, as
\* it would for a file sorted by event
RECURSIVE EventLoop_Ascending(_, _, _, _, _)
EventLoop_Ascending(st, data, i, use_xyz, e) ==
    IF i > Len(data) THEN st
    ELSE LET eid == data[i].event_id
             boundary == ~IsNone(st.c.current_event_id)
                         /\ eid > Val(st.c.current_event_id)
             w1 == IF boundary THEN flush_event(st.w, use_xyz, e, st.c.event_list)
                   ELSE st.w
             l1 == IF boundary THEN <<>> ELSE st.c.event_list
         IN  EventLoop_Ascending([w |-> w1,
                                  c |-> [current_event_id |-> Some(eid),
                                         event_list |-> Append(l1, data[i])]],
                                 data, i + 1, use_xyz, e)

\* lines 347-355: the record loop over one chunk; st is [w: Welford state,
\* c: current event]
RECURSIVE EventLoop(_, _, _, _, _)
EventLoop(st, data, i, use_xyz, e) ==
    IF i > Len(data) THEN st
    ELSE LET eid == data[i].event_id
             boundary == ~IsNone(st.c.current_event_id)
                         /\ eid # Val(st.c.current_event_id)
             w1 == IF boundary THEN flush_event(st.w, use_xyz, e, st.c.event_list)
                   ELSE st.w
             l1 == IF boundary THEN <<>> ELSE st.c.event_list
         IN  EventLoop([w |-> w1,
                        c |-> [current_event_id |-> Some(eid),
                               event_list |-> Append(l1, data[i])]],
                       data, i + 1, use_xyz, e)

\* The pass that closes the current event at the end of every chunk
D_EventChunk_FlushAtChunkEnd ==
    /\ pc = "event" /\ IsDose
    /\ NRead(env, BYTES_PER_RECORD, fpos) > 0
    /\ LET data == Chunk(env, BYTES_PER_RECORD, fpos)
           st == EventLoop([w |-> welford, c |-> cur_event], data, 1, env.use_xyz, edges)
       IN  /\ welford' = flush_event(st.w, env.use_xyz, edges, st.c.event_list)
           /\ cur_event' = CurEventInit
           /\ total_read' = total_read + Len(data)
           /\ fpos' = fpos + RawLen(env, BYTES_PER_RECORD, fpos)
    /\ Goto("event")
    /\ UNCHANGED <<env, corr, n_photons, n_primaries, n_events, gridVars, sum_w, sum_w2,
                   total_energy_all, event_ids, scan, outVars>>

\* build_event_level_uncertainty, one iteration that decodes a chunk (lines
\* 340-358)
D_EventChunk ==
    /\ pc = "event" /\ IsDose
    /\ NRead(env, BYTES_PER_RECORD, fpos) > 0
    /\ LET data == Chunk(env, BYTES_PER_RECORD, fpos)
           st == EventLoop([w |-> welford, c |-> cur_event], data, 1, env.use_xyz, edges)
       IN  /\ welford' = st.w
           /\ cur_event' = st.c
           /\ total_read' = total_read + Len(data)
           /\ fpos' = fpos + RawLen(env, BYTES_PER_RECORD, fpos)
    /\ Goto("event")
    /\ UNCHANGED <<env, corr, n_photons, n_primaries, n_events, gridVars, sum_w, sum_w2,
                   total_energy_all, event_ids, scan, outVars>>

\* The population variance M2 / n in place of the sample variance
EventSigma2_Population(s) ==
    [v \in DOMAIN s.M2_e |->
        LET variance == IF s.n_ev > 1 THEN RDivI(s.M2_e[v], s.n_ev) ELSE RInt(0)
            clipped == IF RLt(variance, RInt(0)) THEN RInt(0) ELSE variance
        IN  IF s.n_ev > 0 THEN RDivI(clipped, s.n_ev) ELSE RInt(0)]

\* lines 362-367: variance = M2 / (n - 1) when n > 1 else 0, and
\* sigma = sqrt(max(variance, 0)) / sqrt(n) when n > 0 else 0, held as
\* its square variance / n
EventSigma2(s) ==
    [v \in DOMAIN s.M2_e |->
        LET variance == IF s.n_ev > 1 THEN RDivI(s.M2_e[v], s.n_ev - 1) ELSE RInt(0)
            clipped == IF RLt(variance, RInt(0)) THEN RInt(0) ELSE variance
        IN  IF s.n_ev > 0 THEN RDivI(clipped, s.n_ev) ELSE RInt(0)]

\* The return of the pass without the flush of the last event
D_EventEnd_NoLastFlush ==
    /\ pc = "event" /\ IsDose
    /\ NRead(env, BYTES_PER_RECORD, fpos) = 0
    /\ welford' = welford
    /\ res' = [res EXCEPT !.sigma2 = EventSigma2(welford),
                          !.n_events_used = welford.n_ev,
                          !.uncertainty_approximate = FALSE]
    /\ Goto("save_arrays")
    /\ UNCHANGED <<env, corr, n_photons, n_primaries, n_events, gridVars, passVars,
                   cur_event, out_files, stats>>

\* build_event_level_uncertainty leaves the loop, flushes the last event and
\* returns (lines 341-345, 359-368); main lines 655-657
D_EventEnd ==
    /\ pc = "event" /\ IsDose
    /\ NRead(env, BYTES_PER_RECORD, fpos) = 0
    /\ LET s == IF ~IsNone(cur_event.current_event_id)
                THEN flush_event(welford, env.use_xyz, edges, cur_event.event_list)
                ELSE welford
       IN  /\ welford' = s
           /\ res' = [res EXCEPT !.sigma2 = EventSigma2(s),
                                 !.n_events_used = s.n_ev,
                                 !.uncertainty_approximate = FALSE]
    /\ Goto("save_arrays")
    /\ UNCHANGED <<env, corr, n_photons, n_primaries, n_events, gridVars, passVars,
                   cur_event, out_files, stats>>

-----------------------------------------------------------------------------
(* Outputs: save_arrays, save_kernel_stats, plots *)

\* cherenkov lines 553-554, dose lines 660-661: save_arrays
SaveArrays ==
    /\ pc = "save_arrays"
    /\ out_files' = out_files \cup ArrayFiles
                    \cup (IF IsDose /\ res.uncertainty_approximate
                          THEN {"kernel_03_uncertainty_approximate.txt"} ELSE {})
    /\ Goto("save_stats")
    /\ UNCHANGED <<env, corr, n_photons, n_primaries, n_events, gridVars, passVars,
                   eventVars, res, stats>>

\* K.sum(): the entries of K share the denominator n_primaries
KSum(sw, n) == <<np_sum3(sw), n>>

\* save_kernel_stats of build_cherenkov_kernel.py (lines 409-452): the
\* fields of kernel_stats.json
CherenkovStats ==
    [photons_read |-> total_read,
     photons_in_voxel_grid |-> res.n_in_grid,
     photons_outside_grid |-> total_read - res.n_in_grid,
     n_primaries |-> n_primaries,
     grid_shape |-> GridShape(edges),
     total_sum |-> KSum(sum_w, n_primaries)]

\* save_kernel_stats of build_dose_kernel.py (lines 478-526)
DoseStats ==
    [total_energy_MeV |-> res.total_energy_MeV,
     energy_in_voxel_grid_MeV |-> res.energy_in_grid,
     energy_outside_grid_MeV |-> res.energy_outside,
     energy_outside_clamped |-> res.energy_outside_clamped,
     n_primaries |-> n_primaries,
     n_events |-> n_events,
     n_events_vs_n_primaries_warning |-> res.warning,
     grid_shape |-> GridShape(edges),
     uncertainty_mode |-> env.uncertainty_mode,
     uncertainty_approximate |-> res.uncertainty_approximate,
     total_sum |-> KSum(sum_w, n_primaries)]

\* cherenkov lines 557-571, dose lines 663-685: save_kernel_stats
SaveStats ==
    /\ pc = "save_stats"
    /\ stats' = Some(IF IsCherenkov THEN CherenkovStats ELSE DoseStats)
    /\ out_files' = out_files \cup StatsFiles
    /\ Goto("plots")
    /\ UNCHANGED <<env, corr, n_photons, n_primaries, n_events, gridVars, passVars,
                   eventVars, res>>

\* cherenkov lines 574-579, dose lines 687-691: plots and summary
Plots ==
    /\ pc = "plots"
    /\ out_files' = out_files \cup PlotFiles
    /\ Goto("done")
    /\ UNCHANGED <<env, corr, n_photons, n_primaries, n_events, gridVars, passVars,
                   eventVars, res, stats>>

\* f.read raises in one of the passes: the exception ends the run
ReadFailure ==
    /\ pc \in {"count", "scan", "accum", "event"}
    /\ Abort("IOError")
    /\ UNCHANGED <<env, corr, n_photons, n_primaries, n_events, gridVars, passVars,
                   eventVars, outVars>>

-----------------------------------------------------------------------------
(* Inputs *)

\* Sequences over S of length at most n
SeqsUpTo(S, n) == UNION {[1..k -> S] : k \in 0..n}

\* A water volume of 0.6 x 0.3 x 0.3 cm at the origin: a grid of 2 x 1 x 1
\* voxels, x edges at -0.3, 0, 0.3 cm
SmallGeometry == [size |-> <<600, 300, 300>>, pos |-> <<0, 0, 0>>]

\* Points of the small grid: in the first voxel, in the second voxel, on the
\* inner edge, on the last edge, and outside the grid
PA == <<-200, 0, 0>>
PB == <<100, 0, 0>>
PInner == <<0, 0, 0>>
PLast == <<300, 0, 0>>
POut == <<400, 0, 0>>

BaseEnv ==
    [builder |-> "dose", input_exists |-> TRUE, config_exists |-> TRUE,
     file |-> <<>>, extra_bytes |-> 0, chunk_size |-> 1,
     use_xyz |-> TRUE, uncertainty_mode |-> "fast", xy_range |-> None,
     geometry |-> Some(SmallGeometry),
     run_meta |-> Some([events |-> Some(2), total_photons |-> None]),
     header |-> None, sim_n_primaries |-> None, arg_n_primaries |-> None]

Builders == {"cherenkov", "dose"}

\* Longest record file of the specification of main()
MainRecords == 2

\* Inputs that vary the metadata: the four sources of the primaries count,
\* the declared photon count and record layout
MetaRunMetas ==
    {None} \cup {Some([events |-> ev, total_photons |-> tp]) :
                    ev \in {None, Some(0), Some(2), Some(3)},
                    tp \in {None, Some(2), Some(5)}}
MetaHeaders ==
    {None} \cup {Some([primaries |-> pl, format_version |-> fv, bytes_per_photon |-> bp]) :
                    pl \in {<<>>, <<Some(0)>>, <<None, Some(0), Some(2)>>},
                    fv \in {None, Some(2), Some(1)},
                    bp \in {Some(60), Some(52)}}
TwoEvents == <<Rec(PA, PA, 1, 0), Rec(POut, POut, 1, 7)>>
MetaEnvs ==
    {[BaseEnv EXCEPT !.builder = b, !.file = TwoEvents, !.use_xyz = ux,
                     !.run_meta = rm, !.header = hd,
                     !.sim_n_primaries = sim, !.arg_n_primaries = arg] :
        b \in Builders, ux \in BOOLEAN, rm \in MetaRunMetas, hd \in MetaHeaders,
        sim \in {None, Some(0), Some(2)}, arg \in {None, Some(0), Some(2), Some(3)}}

\* Inputs that vary the record file and the way it is read
MainFiles == SeqsUpTo({Rec(p, p, 1, e) : p \in {PA, POut}, e \in {0, 7}}, MainRecords)
MainGeometries == {None, Some(SmallGeometry)}
FileEnvs ==
    {[BaseEnv EXCEPT !.builder = b, !.file = f, !.extra_bytes = xb, !.chunk_size = cs,
                     !.use_xyz = ux, !.uncertainty_mode = um, !.input_exists = ie,
                     !.config_exists = ce, !.geometry = g, !.xy_range = xy] :
        b \in Builders, f \in MainFiles, xb \in {0, 1}, cs \in 1..2, ux \in BOOLEAN,
        um \in {"fast", "event"}, ie \in BOOLEAN, ce \in BOOLEAN,
        g \in MainGeometries, xy \in {None, Some(<<300, -300>>)}}

-----------------------------------------------------------------------------
(* main() of both builders *)

Init == \E e \in MetaEnvs \cup FileEnvs : InitRun(e)

Next ==
    \/ C_CheckInputs
    \/ C_GetNPhotons
    \/ ResolvePrimaries
    \/ C_LoadConfig
    \/ MakeGrid
    \/ C_AccumChunk
    \/ C_AccumEnd
    \/ D_CheckInput
    \/ D_LoadConfig
    \/ D_CountChunk
    \/ D_CountEnd
    \/ D_ScanOpen
    \/ D_ScanChunk
    \/ D_ScanEnd
    \/ D_AccumChunk
    \/ D_AccumEnd
    \/ D_FastSigma
    \/ D_EventOpen
    \/ D_EventChunk
    \/ D_EventEnd
    \/ SaveArrays
    \/ SaveStats
    \/ Plots
    \/ ReadFailure

Spec == Init /\ [][Next]_vars
-----------------------------------------------------------------------------
(* Properties of main() *)

Started == pc \notin {"start", "meta", "primaries", "aborted"}
PassEntered == pc \in {"accum", "uncertainty", "event", "save_arrays", "save_stats",
                       "plots", "done"}
AllOutputs == ArrayFiles \cup StatsFiles \cup PlotFiles

\* The distinct event identifiers of the records of the file
ObservedEvents == {env.file[i].event_id : i \in DOMAIN env.file}

\* C6: a run on a file whose byte length is not a multiple of the record
\* width fails before it accumulates anything: it never decodes a chunk in
\* the accumulation pass and never completes.
C6_TrailingBytesRejected ==
    (env.input_exists /\ env.extra_bytes # 0) =>
        /\ pc # "done"
        /\ ~(PassEntered /\ total_read > 0)

\* A header line that names the primaries with a value <= 0, met before any
\* line with a positive value
RECURSIVE HeaderNonPositive(_, _)
HeaderNonPositive(lines, i) ==
    /\ i <= Len(lines)
    /\ IF IsNone(lines[i]) THEN HeaderNonPositive(lines, i + 1)
       ELSE Val(lines[i]) <= 0

\* A source that get_n_primaries consults supplies a value <= 0
ConsultedNonPositive ==
    IF HasEvents(env) THEN Val(Val(env.run_meta).events) <= 0
    ELSE \/ (~IsNone(env.header) /\ HeaderNonPositive(Val(env.header).primaries, 1))
         \/ /\ IsNone(HeaderCount(env))
            /\ IF HasSim(env) THEN Val(env.sim_n_primaries) <= 0
               ELSE ~IsNone(env.arg_n_primaries) /\ Val(env.arg_n_primaries) <= 0

\* C7: when a consulted source of the primaries count supplies a value <= 0
\* the run fails in get_n_primaries and writes no output, and no run goes on
\* with n_primaries <= 0.
C7_NonPositivePrimariesRejected ==
    /\ ConsultedNonPositive => (~Started /\ out_files = {})
    /\ Started => n_primaries > 0

\* C8: when --n-primaries differs from run_meta["events"] the run fails
\* instead of going on with one of the two values.
C8_PrimariesMismatchRejected ==
    (HasEvents(env) /\ ~IsNone(env.arg_n_primaries)
        /\ Val(env.arg_n_primaries) # Val(Val(env.run_meta).events))
    => ~Started

\* C9: a run that ended in a fatal error has written no output array and no
\* statistics file.
C9_NoOutputBeforeFatalError ==
    err # "none" => (out_files = {} /\ stats = None)

\* C9 witness: a read failure ends the run in the event-level pass, after the
\* accumulation pass and the normalisation have completed.
C9_Witness ==
    /\ err = "IOError"
    /\ pc = "aborted"
    /\ res.K # <<>>
    /\ welford.n_ev > 0
    /\ out_files = {}

\* C10: in the dose builder the flag n_events_vs_n_primaries_warning is true
\* exactly when the number of distinct event identifiers of the file differs
\* from the primaries count; the run goes on past the comparison, and a run
\* that completes has written every output with the flag in its statistics.
C10_EventCountWarning ==
    IsDose =>
        /\ PassEntered => (res.warning <=> (Cardinality(ObservedEvents) # n_primaries))
        /\ (pc = "aborted" /\ res.warning) => err \in {"IOError", "ValueError"}
        /\ pc = "done" =>
              /\ ~IsNone(stats)
              /\ Val(stats).n_events_vs_n_primaries_warning
                    <=> (Cardinality(ObservedEvents) # n_primaries)
              /\ Val(stats).n_events = Cardinality(ObservedEvents)
              /\ AllOutputs \subseteq out_files

\* C10 witness: a dose run whose file holds one event for two primaries has
\* completed with the warning set.
C10_Witness ==
    /\ IsDose
    /\ pc = "done"
    /\ Cardinality(ObservedEvents) = 1
    /\ n_primaries = 2
    /\ Val(stats).n_events_vs_n_primaries_warning
-----------------------------------------------------------------------------
(* get_voxel_edges on the bounds main() passes to it *)

\* Water volumes: the 10 x 10 x 10 cm volume of the end-to-end test, the small
\* volume, a flat volume with one extent of zero, an empty volume, and a long
\* volume whose nominal voxel size is clipped from above, and a volume of
\* 50 x 1.25 x 0 cm whose nominal voxel size of 0.5 cm is not clipped
EdgeSizes ==
    {<<10000, 10000, 10000>>, <<600, 300, 300>>, <<2000, 600, 0>>, <<0, 0, 0>>,
     <<100000, 10000, 600>>, <<50000, 1250, 0>>}
EdgePositions == {<<0, 0, 0>>, <<0, 0, 30000>>}
\* --xy-range: absent, ascending, equal, descending
EdgeXYRanges == {None, Some(<<-5000, 5000>>), Some(<<500, 500>>), Some(<<300, -300>>)}
EdgeEnvs ==
    {[BaseEnv EXCEPT !.builder = b, !.file = TwoEvents, !.chunk_size = 2,
                     !.geometry = Some([size |-> sz, pos |-> ps]), !.xy_range = xy] :
        b \in Builders, sz \in EdgeSizes, ps \in EdgePositions, xy \in EdgeXYRanges}

InitEdges == \E e \in EdgeEnvs : InitRun(e)

NextEdges ==
    \/ C_CheckInputs
    \/ C_GetNPhotons
    \/ ResolvePrimaries
    \/ C_LoadConfig
    \/ D_CheckInput
    \/ D_LoadConfig
    \/ D_CountChunk
    \/ MakeGrid

SpecEdges == InitEdges /\ [][NextEdges]_vars

StrictlyIncreasing(a) == \A i \in 1..(Len(a) - 1) : RLt(a[i], a[i + 1])

\* The grid has been built from the bounds
GridBuilt == edges # <<>>

\* Axis k of the grid: its bounds and its edges
AxisLo(k) == bounds[2 * k - 1]
AxisHi(k) == bounds[2 * k]

\* Length bins + 1 and end points equal to the bounds
AxisShape(k) ==
    /\ Len(edges[k]) = NBins(AxisHi(k) - AxisLo(k), dv) + 1
    /\ Len(edges[k]) >= 2
    /\ REq(edges[k][1], RInt(AxisLo(k)))
    /\ REq(edges[k][Len(edges[k])], RInt(AxisHi(k)))

-----------------------------------------------------------------------------
(* The end-to-end run of test_build_cherenkov_kernel.py *)

\* n_primaries, n_photons and --chunk-size of the test
E2E_PRIMARIES == 10
E2E_PHOTONS == 200
E2E_CHUNK == 50

\* Number of synthetic files
E2EPatterns == 4

\* The water volume of the run: 10 x 10 x 10 cm centred on z = 30 cm
E2EGeometry == [size |-> <<10000, 10000, 10000>>, pos |-> <<0, 0, 30000>>]

\* Record i of synthetic file s: a position spread over the volume in steps
\* of 0.1 cm, the faces x = 5, y = 5 and z = 35 cm included
E2ERecord(i, s) ==
    LET p == <<-5000 + 100 * ((7 * i + s) % 101),
               -5000 + 100 * ((13 * i + 3 * s) % 101),
               25000 + 100 * ((31 * i + 5 * s) % 101)>>
    IN  Rec(p, p, 1, i % E2E_PRIMARIES)

E2EFile(s) == [i \in 1..E2E_PHOTONS |-> E2ERecord(i, s)]

E2EEnvs ==
    {[BaseEnv EXCEPT !.builder = "cherenkov", !.file = E2EFile(s),
                     !.chunk_size = cs, !.geometry = Some(E2EGeometry),
                     !.run_meta = Some([events |-> Some(E2E_PRIMARIES),
                                        total_photons |-> Some(E2E_PHOTONS)]),
                     !.header = Some([primaries |-> <<>>, format_version |-> Some(2),
                                      bytes_per_photon |-> Some(BYTES_PER_PHOTON)]),
                     !.arg_n_primaries = Some(E2E_PRIMARIES)] :
        s \in 1..E2EPatterns, cs \in {E2E_CHUNK, 40}}

InitE2E == \E e \in E2EEnvs : InitRun(e)

NextE2E ==
    \/ C_CheckInputs
    \/ C_GetNPhotons
    \/ ResolvePrimaries
    \/ C_LoadConfig
    \/ MakeGrid
    \/ C_AccumChunk
    \/ C_AccumEnd
    \/ SaveArrays
    \/ SaveStats
    \/ Plots

SpecE2E == InitE2E /\ [][NextE2E]_vars

\* The rational t is within 1% of the integer v > 0
WithinOnePercent(t, v) == 100 * Abs(t[1] - v * t[2]) <= v * t[2]

\* The grid has n bins on every axis and voxels of 0.3 cm
E2EGrid(n) == REq(dv, RInt(VOXEL_SIZE_MIN_CM)) /\ GridShape(edges) = <<n, n, n>>

\* The statistics report every record and a kernel that sums to
\* photons / primaries within 1%
E2ESum ==
    /\ Val(stats).photons_read = E2E_PHOTONS
    /\ Val(stats).photons_in_voxel_grid = E2E_PHOTONS
    /\ WithinOnePercent(Val(stats).total_sum, E2E_PHOTONS \div E2E_PRIMARIES)

\* C4 (as stated): the 10 x 10 x 10 cm volume is cut into voxels of 0.3 cm,
\* 34 on every axis, and the kernel of 200 records for 10 primaries sums to
\* 20 within 1%.
C4_ThirtyFourBins ==
    /\ GridBuilt => E2EGrid(34)
    /\ ~IsNone(stats) => E2ESum

\* C4 (amended): the 10 x 10 x 10 cm volume is cut into voxels of 0.3 cm
\* nominal size, round(10 / 0.3) = 33 on every axis, and the kernel of 200
\* records for 10 primaries sums to 20 within 1%.
C4_ThirtyThreeBins ==
    /\ GridBuilt => E2EGrid(33)
    /\ ~IsNone(stats) => E2ESum

\* C4 witness: the run has completed on the grid of 33 x 33 x 33 voxels with a
\* kernel that sums to 20
C4_Witness ==
    /\ pc = "done"
    /\ GridShape(edges) = <<33, 33, 33>>
    /\ total_read = E2E_PHOTONS
    /\ REq(Val(stats).total_sum, RInt(20))
-----------------------------------------------------------------------------
(* The accumulation pass on files of a few records *)

\* Records of the accumulation runs: of weight 1 in the first voxel, on the
\* last edge (second voxel) or outside the small grid, and of weight
\* 2^MantBits in the first voxel
PhotonRecords == {Rec(p, p, 1, 0) : p \in {PA, PLast, POut}}
AccumRecords == PhotonRecords \cup {Rec(PA, PA, MantLimit, 0)}

AccumEnvs ==
    {[BaseEnv EXCEPT !.builder = "dose", !.file = f, !.chunk_size = cs] :
        f \in SeqsUpTo(AccumRecords, MaxRecords), cs \in 1..MaxChunk}
    \cup
    {[BaseEnv EXCEPT !.builder = "cherenkov", !.file = f, !.chunk_size = cs] :
        f \in SeqsUpTo(PhotonRecords, MaxRecords), cs \in 1..MaxChunk}

InitAccum == \E e \in AccumEnvs : InitRun(e)

NextAccum ==
    \/ C_CheckInputs
    \/ C_GetNPhotons
    \/ ResolvePrimaries
    \/ C_LoadConfig
    \/ MakeGrid
    \/ C_AccumChunk
    \/ C_AccumEnd
    \/ D_CheckInput
    \/ D_LoadConfig
    \/ D_CountChunk
    \/ D_CountEnd
    \/ D_AccumChunk
    \/ D_AccumEnd
    \/ D_FastSigma
    \/ SaveArrays
    \/ SaveStats
    \/ Plots

SpecAccum == InitAccum /\ [][NextAccum]_vars

\* The accumulation pass has returned
AccumDone == pc \in {"uncertainty", "save_arrays", "save_stats", "plots", "done"}

\* The arrays of a pass that reads the whole file as one chunk
WholeFileSumW ==
    IF IsCherenkov THEN histogramdd(Positions(TRUE, env.file), edges)
    ELSE histogramdd_w(Positions(env.use_xyz, env.file), edges, Energies(env.file))
WholeFileSumW2 ==
    IF IsCherenkov THEN zeros(edges)
    ELSE histogramdd_w(Positions(env.use_xyz, env.file), edges,
                       Squares(Energies(env.file)))

\* Exact sum of the integers s[i] with i in I
RECURSIVE ExactSum(_, _)
ExactSum(s, I) ==
    IF I = {} THEN 0
    ELSE LET i == CHOOSE j \in I : TRUE IN s[i] + ExactSum(s, I \ {i})

\* Exact totals of the file: the weights, their squares
FileWeight(I) == ExactSum(Energies(env.file), I)
FileSquares == ExactSum([i \in DOMAIN env.file |-> env.file[i].energy * env.file[i].energy],
                        DOMAIN env.file)

\* No sum of weights or of squared weights of the file needs more than
\* MantBits bits: no partial sum of the pass is rounded
NoRounding == FileSquares < MantLimit

\* One chunk holds the whole file
OneChunk == env.chunk_size >= Len(env.file)

\* x and y differ by at most the rounding errors of n additions of terms that
\* sum to t
WithinRounding(x, y, n, t) == MantLimit * Abs(x - y) <= n * t

\* C1 (as stated): for every file and every chunk size the accumulation pass
\* ends with the sum_w and sum_w2 of the pass that reads the whole file as one
\* chunk, so that any two chunk sizes give identical arrays.
C1_ChunkSizeIrrelevant ==
    AccumDone => (sum_w = WholeFileSumW /\ sum_w2 = WholeFileSumW2)

\* C1 (amended): the counts of the unweighted pass are those of the one-chunk
\* pass for every chunk size; the weighted sum_w and sum_w2 are those of the
\* one-chunk pass for chunk size 1, for a chunk that holds the whole file, and
\* whenever no partial sum is rounded; for other chunk sizes they agree with
\* it up to the rounding of the additions.
C1_ChunkSizeUpToRounding ==
    AccumDone =>
        /\ (IsCherenkov \/ env.chunk_size = 1 \/ OneChunk \/ NoRounding)
              => (sum_w = WholeFileSumW /\ sum_w2 = WholeFileSumW2)
        /\ \A v \in DOMAIN sum_w :
              /\ WithinRounding(sum_w[v], WholeFileSumW[v], Len(env.file),
                                FileWeight(DOMAIN env.file))
              /\ WithinRounding(sum_w2[v], WholeFileSumW2[v], Len(env.file), FileSquares)

\* C1 witness: a weighted pass over a file of several chunks, none of them
\* the whole file, has returned the arrays of the one-chunk pass
C1_Witness ==
    /\ AccumDone /\ IsDose
    /\ env.chunk_size > 1 /\ ~OneChunk
    /\ \E v \in DOMAIN sum_w : sum_w[v] > 1
    /\ sum_w = WholeFileSumW
    /\ sum_w2 = WholeFileSumW2

\* The records of the file that lie in the closed box of the bounds, and
\* those that lie in no voxel
InBox(p) == \A k \in 1..3 : AxisLo(k) <= p[k] /\ p[k] <= AxisHi(k)
Inside == {i \in DOMAIN env.file : InBox(Cols(env.use_xyz, env.file[i]))}
Outside == DOMAIN env.file \ Inside

\* The records of the file that lie in voxel v
InVoxel(v) == {i \in DOMAIN env.file : VoxelOf(edges, Cols(env.use_xyz, env.file[i])) = v}

-----------------------------------------------------------------------------
(* The event-level pass against the fast estimate *)

\* Largest chunk size of the event-level runs
EventChunk == 2

\* Files of records of weight 1 or 2 in the two voxels.  Grouping "single"
\* gives every record an event of its own, "pairs" puts two consecutive
\* records in one event.
EventIdOf(i, grouping) == IF grouping = "single" THEN i ELSE (i + 1) \div 2
EventPoints == {<<p, w>> : p \in {PA, PLast}, w \in {1, 2}}
EventFile(s, grouping) ==
    [i \in DOMAIN s |-> Rec(s[i][1], s[i][1], s[i][2], EventIdOf(i, grouping))]
EventEnvs ==
    {[BaseEnv EXCEPT !.builder = "dose", !.uncertainty_mode = "event",
                     !.file = EventFile(s, g), !.chunk_size = cs,
                     !.run_meta = Some([events |-> Some(Max2(1, EventIdOf(Len(s), g))),
                                        total_photons |-> None])] :
        s \in SeqsUpTo(EventPoints, MaxRecords), g \in {"single", "pairs"},
        cs \in 1..EventChunk}

InitEvent == \E e \in EventEnvs : InitRun(e)

NextEvent ==
    \/ D_CheckInput
    \/ ResolvePrimaries
    \/ D_LoadConfig
    \/ D_CountChunk
    \/ D_CountEnd
    \/ MakeGrid
    \/ D_AccumChunk
    \/ D_AccumEnd
    \/ D_EventOpen
    \/ D_EventChunk
    \/ D_EventEnd
    \/ SaveArrays
    \/ SaveStats
    \/ Plots

SpecEvent == InitEvent /\ [][NextEvent]_vars

\* The event-level pass has returned its sigma
EventDone ==
    /\ env.uncertainty_mode = "event"
    /\ pc \in {"save_arrays", "save_stats", "plots", "done"}

\* Every event of the file contributes one record, and n_primaries is the
\* number of events
OneRecordPerEvent ==
    /\ Cardinality(ObservedEvents) = Len(env.file)
    /\ n_primaries = Len(env.file)

\* The square of the fast-mode sigma
FastSigma2 == compute_kernel_fast(sum_w, sum_w2, n_primaries).sigma2

-----------------------------------------------------------------------------
(* The clamp of a negative outside energy *)

\* A dose run has written its statistics record
DoseStatsWritten == IsDose /\ pc \in {"plots", "done"}

\* The outside value that build_dose_histogram_chunked returned: the running
\* total minus the sum of the grid
ComputedOutside == FSub(total_energy_all, np_sum3(sum_w))

\* C11: in every completed dose run the outside-grid energy of the statistics
\* record is >= 0, energy_outside_clamped is true exactly when the computed
\* outside value (total minus in-grid) was negative, and the reported total
\* is the (float) sum of the reported in-grid and outside energies; a clamped
\* record has outside 0 and total equal to in-grid.
C11_OutsideClamp ==
    DoseStatsWritten =>
        LET s == Val(stats)
        IN  /\ s.energy_outside_grid_MeV >= 0
            /\ s.energy_outside_clamped <=> (ComputedOutside < 0)
            /\ s.total_energy_MeV
                 = FAdd(s.energy_in_voxel_grid_MeV, s.energy_outside_grid_MeV)
            /\ s.energy_in_voxel_grid_MeV = np_sum3(sum_w)
            /\ s.energy_outside_clamped =>
                 /\ s.energy_outside_grid_MeV = 0
                 /\ s.total_energy_MeV = s.energy_in_voxel_grid_MeV
            /\ ~s.energy_outside_clamped =>
                 s.energy_outside_grid_MeV = ComputedOutside

\* A completed dose run of non-negative weights whose computed outside
\* energy was negative by cancellation, and was clamped
C11_Witness ==
    /\ DoseStatsWritten /\ pc = "done"
    /\ \A i \in 1..Len(env.file) : env.file[i].energy >= 0
    /\ ComputedOutside < 0
    /\ Val(stats).energy_outside_clamped
    /\ Val(stats).energy_outside_grid_MeV = 0
    /\ Val(stats).total_energy_MeV > 0
-----------------------------------------------------------------------------
(* The order of the passes *)

\* The labels at which a pass over the file is running
PassLabels == {"count", "scan", "accum", "event"}

\* The event-level pass has been requested
EventRequested == IsDose /\ env.uncertainty_mode = "event"

-----------------------------------------------------------------------------
(* The binning convention *)

\* Number of records of the binning runs
BinRecords == 3

\* Points below the first x edge, on it, on the last x edge, above it, and
\* above the last y edge
PBelow == <<-400, 0, 0>>
PFirst == <<-300, 0, 0>>
PYOut == <<-200, 200, 0>>
BinPoints == {PBelow, PFirst, PA, PInner, PLast, POut, PYOut}

BinEnvs ==
    {[BaseEnv EXCEPT !.builder = b, !.file = f, !.chunk_size = cs] :
        b \in Builders,
        f \in SeqsUpTo({Rec(p, p, 1, 0) : p \in BinPoints}, BinRecords),
        cs \in {1, BinRecords}}

InitBin == \E e \in BinEnvs : InitRun(e)

SpecBin == InitBin /\ [][NextAccum]_vars

\* The bin of coordinate c by the stated convention: bin i when
\* a[i] <= c < a[i+1], the last bin when c is the last edge, 0 when there is
\* no such bin
IntervalBin(a, c) ==
    IF REq(RInt(c), a[Len(a)]) THEN Len(a) - 1
    ELSE IF \E i \in 1..(Len(a) - 1) : RLe(a[i], RInt(c)) /\ RLt(RInt(c), a[i + 1])
    THEN CHOOSE i \in 1..(Len(a) - 1) : RLe(a[i], RInt(c)) /\ RLt(RInt(c), a[i + 1])
    ELSE 0

\* Record i of the file lies outside [first edge, last edge] on some axis
OutOfRange(i) ==
    LET p == Cols(env.use_xyz, env.file[i])
    IN  \E k \in 1..3 : RLt(RInt(p[k]), edges[k][1])
                        \/ RLt(edges[k][Len(edges[k])], RInt(p[k]))

\* The records of the file that the convention puts in the voxel of buffer
\* index v
IntervalRecords(v) ==
    {i \in DOMAIN env.file :
        LET p == Cols(env.use_xyz, env.file[i])
            b == <<IntervalBin(edges[1], p[1]), IntervalBin(edges[2], p[2]),
                   IntervalBin(edges[3], p[3])>>
        IN  /\ \A k \in 1..3 : b[k] >= 1
            /\ ravel_multi_index(b, GridShape(edges)) = v}

\* The tally of the outside records in the statistics record
OutsideTally ==
    IF IsCherenkov THEN Val(stats).photons_outside_grid
    ELSE Val(stats).energy_outside_grid_MeV

\* C13: after the accumulation pass each voxel holds the records (their
\* count, or their weight) whose coordinate c on every axis has
\* edge_i <= c < edge_{i+1} for the voxel's bin i, or is the last edge when
\* i is the last bin; a record outside [first edge, last edge] on some axis is
\* in no voxel, every other record is in one, and the statistics record
\* tallies the out-of-range records as outside.
C13_BinningConvention ==
    /\ AccumDone =>
          /\ \A v \in DOMAIN sum_w : sum_w[v] = FileWeight(IntervalRecords(v))
          /\ \A i \in DOMAIN env.file :
                OutOfRange(i) <=> (\A v \in DOMAIN sum_w : i \notin IntervalRecords(v))
    /\ (AccumDone /\ ~IsNone(stats)) =>
          OutsideTally = FileWeight({i \in DOMAIN env.file : OutOfRange(i)})

\* A completed run on a file with a record on the inner edge (counted in the
\* upper voxel), one on the last edge (counted in the last voxel) and one
\* above the last edge (counted in no voxel)
C13_Witness ==
    /\ pc = "done"
    /\ Len(env.file) = 3
    /\ env.file[1].pos = PInner /\ env.file[2].pos = PLast /\ env.file[3].pos = POut
    /\ sum_w[1] = 0 /\ sum_w[2] = 2
    /\ OutsideTally = 1
-----------------------------------------------------------------------------
(* analyze_phsp_dose_correlation.py: main() *)

\* if max_event_id > SPARSE_THRESHOLD * total_records, use compressed indices
SPARSE_THRESHOLD == 10

\* The branch taken whatever the identifiers are: the comparison reversed
UseSparse_Reversed(max_event_id, total_records) ==
    max_event_id <= SPARSE_THRESHOLD * total_records

\* use_sparse = max_event_id > SPARSE_THRESHOLD * total_records
UseSparse(max_event_id, total_records) ==
    max_event_id > SPARSE_THRESHOLD * total_records

\* The event_id column of a structured array
EventIdColumn(recs) == [i \in 1..Len(recs) |-> recs[i].event_id]

\* max() of an integer column that is not empty
ColumnMax(c) == CHOOSE m \in {c[i] : i \in DOMAIN c} : \A i \in DOMAIN c : c[i] <= m

\* np.unique(c): the distinct values of the column
np_unique(c) == {c[i] : i \in DOMAIN c}

\* np.union1d(a, b): the sorted array of the values of a or b, indexed from 0
np_union1d(a, b) ==
    LET S == a \cup b
    IN  [k \in 0..(Cardinality(S) - 1) |->
            CHOOSE x \in S : Cardinality({y \in S : y < x}) = k]

\* The search with side="right": the index after the last element <= v
np_searchsorted_right(a, v) == Cardinality({k \in DOMAIN a : a[k] <= v})

\* np.searchsorted(a, v) on the sorted array a (side="left"): the index of
\* the first element >= v
np_searchsorted(a, v) == Cardinality({k \in DOMAIN a : a[k] < v})

\* The weights w[i] with idx[i] = k among the records from i on, added to acc
\* in file order
RECURSIVE BinSum(_, _, _, _, _)
BinSum(idx, w, k, i, acc) ==
    IF i > Len(idx) THEN acc
    ELSE BinSum(idx, w, k, i + 1, IF idx[i] = k THEN FAdd(acc, w[i]) ELSE acc)

\* np.bincount(idx, weights=w) without minlength: the array ends at the
\* largest index present
np_bincount_short(idx, w, n) ==
    LET len == IF Len(idx) = 0 THEN 0 ELSE ColumnMax(idx) + 1
    IN  [k \in 0..(len - 1) |-> BinSum(idx, w, k, 1, 0)]

\* np.bincount(idx, weights=w, minlength=n): an array, indexed from 0, of
\* length max(n, max(idx) + 1)
np_bincount(idx, w, n) ==
    LET len == IF Len(idx) = 0 THEN n ELSE Max2(n, ColumnMax(idx) + 1)
    IN  [k \in 0..(len - 1) |-> BinSum(idx, w, k, 1, 0)]

\* Unit weights: np.bincount(idx, minlength=n)
Ones(idx) == [i \in 1..Len(idx) |-> 1]

\* a[mask] of a column
RECURSIVE Masked(_, _, _)
Masked(a, mask, i) ==
    IF i > Len(a) THEN <<>>
    ELSE (IF mask[i] THEN <<a[i]>> ELSE <<>>) \o Masked(a, mask, i + 1)

CorrFigures ==
    {"scatter_dose_vs_photons.png", "yield_fit_photons_vs_dose.png",
     "hist_photons_per_event.png", "README.md"}

\* lines 203-213: np.fromfile of both files; an empty array ends the run
Corr_Read ==
    /\ pc = "corr_read"
    /\ corr' = [corr EXCEPT !.phsp = corr.phsp_file, !.dose = corr.dose_file]
    /\ IF Len(corr.phsp_file) = 0 \/ Len(corr.dose_file) = 0
       THEN Abort("SystemExit") ELSE Goto("corr_aggregate")
    /\ UNCHANGED <<env, n_photons, n_primaries, n_events, gridVars, passVars,
                   eventVars, outVars>>

\* lines 215-241: the per-event arrays, through the compressed indices in
\* the sparse branch and through the identifiers in the dense branch
Corr_Aggregate ==
    /\ pc = "corr_aggregate"
    /\ LET pid == EventIdColumn(corr.phsp)
           did == EventIdColumn(corr.dose)
           w == Energies(corr.dose)
           max_event_id == Max2(ColumnMax(pid), ColumnMax(did))
           n_ev == max_event_id + 1
           total_records == Len(corr.phsp) + Len(corr.dose)
           use_sparse == UseSparse(max_event_id, total_records)
           all_ids == np_union1d(np_unique(pid), np_unique(did))
           pidx == [i \in 1..Len(pid) |-> np_searchsorted(all_ids, pid[i])]
           didx == [i \in 1..Len(did) |-> np_searchsorted(all_ids, did[i])]
           n_act == Cardinality(DOMAIN all_ids)
       IN  corr' =
             IF use_sparse
             THEN [corr EXCEPT !.use_sparse = TRUE, !.n_events = n_ev,
                               !.all_event_ids = all_ids,
                               !.phsp_idx = pidx, !.dose_idx = didx,
                               !.n_events_actual = n_act,
                               !.photons_per_event = np_bincount(pidx, Ones(pidx), n_act),
                               !.dose_per_event = np_bincount(didx, w, n_act)]
             ELSE [corr EXCEPT !.use_sparse = FALSE, !.n_events = n_ev,
                               !.n_events_actual = n_ev,
                               !.photons_per_event = np_bincount(pid, Ones(pid), n_ev),
                               !.dose_per_event = np_bincount(did, w, n_ev)]
    /\ Goto("corr_report")
    /\ UNCHANGED <<env, n_photons, n_primaries, n_events, gridVars, passVars,
                   eventVars, outVars>>

\* lines 243-386: statistics, correlation, fit and figures of the two
\* per-event arrays; the ratio histogram is drawn when some event has a dose
\* at or above the fit threshold
Corr_Report ==
    /\ pc = "corr_report"
    /\ out_files' = out_files \cup CorrFigures
         \cup (IF \E k \in DOMAIN corr.dose_per_event : corr.dose_per_event[k] > 0
               THEN {"hist_photons_over_dose.png"} ELSE {})
    /\ Goto("corr_electron")
    /\ UNCHANGED <<env, corr, n_photons, n_primaries, n_events, gridVars, passVars,
                   eventVars, res, stats>>

\* lines 388-441: the electron-only array on the same mapping, the summary
\* file, and the shape assertion of the sparse branch
Corr_Electron ==
    /\ pc = "corr_electron"
    /\ LET mask == [i \in 1..Len(corr.dose) |-> corr.dose[i].pdg = 11]
           w == Masked(Energies(corr.dose), mask, 1)
           e == IF corr.use_sparse
                THEN np_bincount(Masked(corr.dose_idx, mask, 1), w, corr.n_events_actual)
                ELSE np_bincount(Masked(EventIdColumn(corr.dose), mask, 1), w,
                                 corr.n_events)
       IN  /\ corr' = [corr EXCEPT !.electron_dose_per_event = e]
           /\ out_files' = out_files \cup {"correlation_summary.txt"}
           /\ IF corr.use_sparse /\ DOMAIN e # DOMAIN corr.photons_per_event
              THEN Abort("AssertionError") ELSE Goto("done")
    /\ UNCHANGED <<env, n_photons, n_primaries, n_events, gridVars, passVars,
                   eventVars, res, stats>>

\* Longest file of the correlation runs
CorrRecords == 2

\* Event identifiers of the correlation runs: small ones, and two that exceed
\* SPARSE_THRESHOLD times the number of records
CorrEventIds == {0, 1, 41, 97}

CorrPhspFiles == SeqsUpTo({[event_id |-> e] : e \in CorrEventIds}, CorrRecords)
CorrDoseFiles ==
    SeqsUpTo({[event_id |-> e, energy |-> 1, pdg |-> g] :
                 e \in CorrEventIds, g \in {11, 22}}, CorrRecords)

InitCorr ==
    /\ \E p \in CorrPhspFiles, d \in CorrDoseFiles :
          corr = [CorrInit EXCEPT !.phsp_file = p, !.dose_file = d]
    /\ env = BaseEnv
    /\ pc = "corr_read"
    /\ err = "none"
    /\ n_photons = 0 /\ n_primaries = 0 /\ n_events = 0
    /\ bounds = <<>> /\ edges = <<>> /\ dv = RInt(0)
    /\ fpos = 0 /\ total_read = 0 /\ sum_w = <<>> /\ sum_w2 = <<>>
    /\ total_energy_all = 0 /\ event_ids = {} /\ scan = None
    /\ welford = WelfordInit /\ cur_event = CurEventInit
    /\ res = ResInit /\ out_files = {} /\ stats = None

NextCorr ==
    \/ Corr_Read
    \/ Corr_Aggregate
    \/ Corr_Report
    \/ Corr_Electron

SpecCorr == InitCorr /\ [][NextCorr]_vars
-----------------------------------------------------------------------------
(* The event index mapping *)

\* main has built the per-event arrays
Aggregated == pc \in {"corr_report", "corr_electron", "done"}

\* The identifiers observed in the two streams
ObservedIds ==
    {corr.phsp[i].event_id : i \in DOMAIN corr.phsp}
    \cup {corr.dose[i].event_id : i \in DOMAIN corr.dose}

\* The pairs <<identifier, compressed index>> of the records of both streams
IndexPairs ==
    {<<corr.phsp[i].event_id, corr.phsp_idx[i]>> : i \in DOMAIN corr.phsp}
    \cup {<<corr.dose[i].event_id, corr.dose_idx[i]>> : i \in DOMAIN corr.dose}

\* C14: in the sparse branch the inverse lookup reproduces the identifier of
\* every record of either stream: all_event_ids[idx] = event_id.
C14_InverseLookup ==
    (Aggregated /\ corr.use_sparse) =>
        /\ Len(corr.phsp_idx) = Len(corr.phsp) /\ Len(corr.dose_idx) = Len(corr.dose)
        /\ \A i \in DOMAIN corr.phsp :
              /\ corr.phsp_idx[i] \in DOMAIN corr.all_event_ids
              /\ corr.all_event_ids[corr.phsp_idx[i]] = corr.phsp[i].event_id
        /\ \A i \in DOMAIN corr.dose :
              /\ corr.dose_idx[i] \in DOMAIN corr.all_event_ids
              /\ corr.all_event_ids[corr.dose_idx[i]] = corr.dose[i].event_id

\* A sparse run on streams that share one identifier and differ in others
C14_Witness ==
    /\ Aggregated /\ corr.use_sparse
    /\ Cardinality(ObservedIds) = 3
    /\ \E i \in DOMAIN corr.phsp, j \in DOMAIN corr.dose :
          corr.phsp[i].event_id = corr.dose[j].event_id
    /\ \E i \in DOMAIN corr.phsp : corr.phsp_idx[i] = 2
    /\ \E j \in DOMAIN corr.dose : corr.dose_idx[j] = 0

\* The weight of the dose records of identifier x, of every particle or of
\* electrons only
DoseOf(x, electrons) ==
    ExactSum(Energies(corr.dose),
             {i \in DOMAIN corr.dose :
                 /\ corr.dose[i].event_id = x
                 /\ electrons => corr.dose[i].pdg = 11})

\* C15: in the sparse branch the index map is an order-preserving bijection
\* from the identifiers observed in the two streams onto 0..E-1: an
\* identifier has one index, two identifiers have different indices in the
\* order of the identifiers, and every index of 0..E-1 is taken.  The photon,
\* dose and electron-dose arrays have length E, and entry k of each is the
\* tally of the event whose index is k.
C15_OrderPreservingBijection ==
    (Aggregated /\ corr.use_sparse) =>
        LET E == corr.n_events_actual
        IN  /\ E = Cardinality(ObservedIds)
            /\ {q[1] : q \in IndexPairs} = ObservedIds
            /\ {q[2] : q \in IndexPairs} = 0..(E - 1)
            /\ \A q, r \in IndexPairs : (q[1] < r[1]) <=> (q[2] < r[2])
            /\ DOMAIN corr.photons_per_event = 0..(E - 1)
            /\ DOMAIN corr.dose_per_event = 0..(E - 1)
            /\ pc = "done" => DOMAIN corr.electron_dose_per_event = 0..(E - 1)
            /\ \A q \in IndexPairs :
                  /\ corr.photons_per_event[q[2]]
                        = Cardinality({i \in DOMAIN corr.phsp :
                                          corr.phsp[i].event_id = q[1]})
                  /\ corr.dose_per_event[q[2]] = DoseOf(q[1], FALSE)
                  /\ pc = "done" =>
                        corr.electron_dose_per_event[q[2]] = DoseOf(q[1], TRUE)

\* A completed sparse run of three events whose last event has no electron
\* dose and whose first has no photon
C15_Witness ==
    /\ pc = "done" /\ corr.use_sparse
    /\ corr.n_events_actual = 3
    /\ corr.photons_per_event[0] = 0 /\ corr.photons_per_event[2] > 0
    /\ corr.dose_per_event[2] > 0
    /\ corr.electron_dose_per_event[2] = 0
    /\ corr.electron_dose_per_event[0] > 0

\* C16: when the identifiers observed in the two streams are exactly 0..E-1
\* the dense path is taken, and the array index of every record is its
\* identifier: the arrays have length E and entry k is the tally of the
\* records of identifier k.
C16_DensePath ==
    (Aggregated /\ ObservedIds = 0..(Cardinality(ObservedIds) - 1)) =>
        LET E == Cardinality(ObservedIds)
        IN  /\ ~corr.use_sparse
            /\ corr.n_events_actual = E
            /\ DOMAIN corr.photons_per_event = 0..(E - 1)
            /\ DOMAIN corr.dose_per_event = 0..(E - 1)
            /\ \A k \in 0..(E - 1) :
                  /\ corr.photons_per_event[k]
                        = Cardinality({i \in DOMAIN corr.phsp : corr.phsp[i].event_id = k})
                  /\ corr.dose_per_event[k] = DoseOf(k, FALSE)
                  /\ pc = "done" => corr.electron_dose_per_event[k] = DoseOf(k, TRUE)

\* A completed run on streams whose identifiers are 0 and 1
C16_Witness ==
    /\ pc = "done" /\ ObservedIds = {0, 1}
    /\ ~corr.use_sparse
    /\ corr.photons_per_event[1] = 2
    /\ corr.dose_per_event[0] = 2
-----------------------------------------------------------------------------
(* The nominal voxel size and the bin counts *)

\* The extent of axis k, and the largest of the three
Extent(k) == AxisHi(k) - AxisLo(k)
LargestExtent == Max2(Extent(1), Max2(Extent(2), Extent(3)))

\* n is the integer nearest to the rational q, the even one of the two when
\* q lies half way
IsRounded(q, n) ==
    LET d == Abs(2 * q[1] - 2 * n * q[2])
    IN  d < q[2] \/ (d = q[2] /\ n % 2 = 0)

\* C18: get_voxel_edges returns dv = clamp(largest extent / 100, 0.3, 0.8) cm
\* and gives each axis max(1, round(extent / dv)) bins: the integer nearest to
\* extent / dv when that is 2 or more, one bin when extent / dv rounds to 1 or
\* less; an axis of extent 0 has exactly one bin.
C18_DvAndBinCounts ==
    GridBuilt =>
        /\ IF LargestExtent < TARGET_BINS_LARGEST_DIM * VOXEL_SIZE_MIN_CM
           THEN REq(dv, RInt(VOXEL_SIZE_MIN_CM))
           ELSE IF LargestExtent > TARGET_BINS_LARGEST_DIM * VOXEL_SIZE_MAX_CM
           THEN REq(dv, RInt(VOXEL_SIZE_MAX_CM))
           ELSE REq(dv, <<LargestExtent, TARGET_BINS_LARGEST_DIM>>)
        /\ \A k \in 1..3 :
              LET n == Len(edges[k]) - 1
                  q == <<Extent(k) * dv[2], dv[1]>>
              IN  /\ n >= 1
                  /\ n >= 2 => IsRounded(q, n)
                  /\ n = 1 => RLt(q, <<3, 2>>)
                  /\ Extent(k) = 0 => n = 1

\* A grid whose voxel size is not clipped, with an axis of 100 bins, an axis
\* whose extent is 2.5 voxel sizes (2 bins) and an axis of extent 0 (1 bin)
C18_Witness ==
    /\ GridBuilt
    /\ REq(dv, RInt(500))
    /\ Extent(2) = 1250 /\ Extent(3) = 0
    /\ GridShape(edges) = <<100, 2, 1>>
-----------------------------------------------------------------------------
(* The event-level pass on grouped files *)

\* Longest file of the Welford runs
WelfordRecords == 4

\* Records of weight 1 in the first voxel, of weight 2 on the last edge, and
\* of weight 1 outside the grid.  Grouping "all" puts every record of the
\* file in one event.
WelfordPoints == {<<PA, 1>>, <<PLast, 2>>, <<POut, 1>>}
WelfordIdOf(i, grouping) == IF grouping = "all" THEN 1 ELSE EventIdOf(i, grouping)
WelfordFile(s, grouping) ==
    [i \in DOMAIN s |-> Rec(s[i][1], s[i][1], s[i][2], WelfordIdOf(i, grouping))]
WelfordEnvs ==
    {[BaseEnv EXCEPT !.builder = "dose", !.uncertainty_mode = "event",
                     !.file = WelfordFile(s, g), !.chunk_size = cs,
                     !.run_meta = Some([events |-> Some(Max2(1, WelfordIdOf(Len(s), g))),
                                        total_photons |-> None])] :
        s \in SeqsUpTo(WelfordPoints, WelfordRecords),
        g \in {"single", "pairs", "all"}, cs \in 1..EventChunk}

InitWelford == \E e \in WelfordEnvs : InitRun(e)

SpecWelford == InitWelford /\ [][NextEvent]_vars

\* The records and identifiers that a pass holds between two reads: the set
\* of identifiers of the count and scan passes, the list of the records of
\* the current event of the event-level pass
RecordsHeld ==
    IF pc \in {"count", "scan"} THEN Cardinality(event_ids)
    ELSE IF pc = "event" THEN Len(cur_event.event_list)
    ELSE 0

\* C17: at every point of every pass the number of records and identifiers
\* held is at most chunk_size plus a term that does not depend on the file,
\* here the number of voxels of the grid.
C17_MemoryBounded ==
    pc \in PassLabels =>
        RecordsHeld <= env.chunk_size + NVoxels(get_voxel_edges(bounds).edges)

\* The event identifiers of the first n records of the file
IdsUpTo(n) == {env.file[i].event_id : i \in 1..n}

\* The histogram of event x in voxel v: the weight of its records in v
EventHist(x, v) ==
    FileWeight({i \in DOMAIN env.file :
                   /\ env.file[i].event_id = x
                   /\ VoxelOf(edges, Cols(env.use_xyz, env.file[i])) = v})

\* The sum over the events X of f(H_x) in voxel v, for f the identity
RECURSIVE SumHist(_, _)
SumHist(X, v) ==
    IF X = {} THEN 0
    ELSE LET x == CHOOSE y \in X : TRUE IN EventHist(x, v) + SumHist(X \ {x}, v)

\* The sum over the events X of (H_x - m)^2 in voxel v
RECURSIVE SumSquaredDev(_, _, _)
SumSquaredDev(X, v, m) ==
    IF X = {} THEN RInt(0)
    ELSE LET x == CHOOSE y \in X : TRUE
             d == RSub(RInt(EventHist(x, v)), m)
         IN  RAdd(RMul(d, d), SumSquaredDev(X \ {x}, v, m))

\* C19: on a file grouped by event identifier, with events of histograms
\* H_1..H_n, the Welford state after the last flush has in every voxel
\* mean = (sum of H_i) / n and M2 = sum of (H_i - mean)^2; the variance is
\* M2 / (n - 1) when n > 1 and 0 otherwise, and the returned sigma squared is
\* variance / n, 0 everywhere when n <= 1.
C19_WelfordResult ==
    EventDone =>
        LET X == ObservedEvents
            n == Cardinality(X)
        IN  /\ welford.n_ev = n
            /\ res.n_events_used = n
            /\ \A v \in Voxels(edges) :
                  /\ n >= 1 =>
                        LET m == <<SumHist(X, v), n>>
                        IN  /\ REq(welford.mean_e[v], m)
                            /\ REq(welford.M2_e[v], SumSquaredDev(X, v, m))
                  /\ n > 1 => REq(res.sigma2[v],
                                  RDivI(RDivI(welford.M2_e[v], n - 1), n))
                  /\ n <= 1 => REq(res.sigma2[v], RInt(0))

\* A completed pass over two events of two records each, read one record at
\* a time, with a voxel whose variance is not zero
C19_Witness ==
    /\ EventDone /\ pc = "done"
    /\ welford.n_ev = 2
    /\ Len(env.file) = 4
    /\ env.chunk_size = 1
    /\ \E v \in Voxels(edges) : RLt(RInt(0), res.sigma2[v])

\* The events flushed so far in the event-level pass: those of the records
\* read, but for the current one while the pass runs
FlushedEvents ==
    IF pc = "event"
    THEN IdsUpTo(total_read) \ (IF IsNone(cur_event.current_event_id) THEN {}
                                ELSE {Val(cur_event.current_event_id)})
    ELSE ObservedEvents

\* An event all of whose records lie in no voxel
OutsideEvent(x) ==
    \A i \in DOMAIN env.file :
        env.file[i].event_id = x => VoxelOf(edges, Cols(env.use_xyz, env.file[i])) = 0

\* C20: throughout the event-level pass, and after it, n >= 0 is one number
\* for all voxels and M2 >= 0 in every voxel; n is the number of events
\* flushed, the events with no record in the grid included, and every voxel
\* has received one sample from each of them: n * mean is the sum of their
\* histograms in the voxel, zero entries included.
C20_WelfordInvariant ==
    (pc = "event" \/ EventDone) =>
        /\ welford.n_ev \in Nat
        /\ welford.n_ev = Cardinality(FlushedEvents)
        /\ DOMAIN welford.mean_e = Voxels(edges)
        /\ DOMAIN welford.M2_e = Voxels(edges)
        /\ \A v \in Voxels(edges) :
              /\ RLe(RInt(0), welford.M2_e[v])
              /\ REq(RMul(RInt(welford.n_ev), welford.mean_e[v]),
                     RInt(SumHist(FlushedEvents, v)))

\* The pass is running, has flushed two events, one of them with no record
\* in the grid, and has left a voxel untouched
C20_Witness ==
    /\ pc = "event"
    /\ welford.n_ev = 2
    /\ \E x \in FlushedEvents : OutsideEvent(x)
    /\ \E x \in FlushedEvents : ~OutsideEvent(x)
    /\ \E v \in Voxels(edges) : REq(welford.mean_e[v], RInt(0))
    /\ \E v \in Voxels(edges) : RLt(RInt(0), welford.M2_e[v])
-----------------------------------------------------------------------------
(* The passes of both builders on files whose event identifiers come in any
   order *)

\* Longest file of these runs
RunRecords == 3

\* The identifiers a record may carry: with two of them a file of three
\* records can return to an identifier it has left
RunIds == {1, 2}

RunFiles ==
    SeqsUpTo({Rec(pw[1], pw[1], pw[2], x) : pw \in WelfordPoints, x \in RunIds}, RunRecords)

\* The dose builder with --uncertainty-mode event, reading (x, y, z) or
\* (dx, dy, dz), and the Cherenkov builder on the same records
RunEnvs ==
    {[BaseEnv EXCEPT !.builder = "dose", !.uncertainty_mode = "event",
                     !.file = f, !.chunk_size = cs, !.use_xyz = ux] :
        f \in RunFiles, cs \in 1..EventChunk, ux \in BOOLEAN}
    \cup {[BaseEnv EXCEPT !.builder = "cherenkov", !.file = f, !.chunk_size = cs] :
             f \in RunFiles, cs \in 1..EventChunk}

InitRuns == \E e \in RunEnvs : InitRun(e)

NextRuns ==
    \/ C_CheckInputs
    \/ C_GetNPhotons
    \/ ResolvePrimaries
    \/ C_LoadConfig
    \/ MakeGrid
    \/ C_AccumChunk
    \/ C_AccumEnd
    \/ D_CheckInput
    \/ D_LoadConfig
    \/ D_CountChunk
    \/ D_CountEnd
    \/ D_ScanOpen
    \/ D_ScanChunk
    \/ D_ScanEnd
    \/ D_AccumChunk
    \/ D_AccumEnd
    \/ D_EventOpen
    \/ D_EventChunk
    \/ D_EventEnd
    \/ SaveArrays
    \/ SaveStats
    \/ Plots

SpecRuns == InitRuns /\ [][NextRuns]_vars

\* The first record of every maximal run of equal consecutive event
\* identifiers of the file
RunStarts ==
    {i \in DOMAIN env.file : i = 1 \/ env.file[i].event_id # env.file[i - 1].event_id}

\* The records of every event are contiguous in the file
Grouped == Cardinality(RunStarts) = Cardinality(ObservedEvents)

\* C21: the event-level pass has no check of the grouping: no run aborts in
\* it, the warning of main() depends on the counts of events and primaries
\* alone, and the n_events_used it returns is the number of maximal runs of
\* equal consecutive identifiers, which exceeds the number of distinct
\* identifiers when the records of some event are not contiguous
C21_RunsAreEvents ==
    /\ (IsDose /\ pc = "aborted") => (env.file = <<>> /\ ~env.use_xyz)
    /\ EventDone =>
         /\ err = "none"
         /\ res.n_events_used = Cardinality(RunStarts)
         /\ res.warning = (n_events # n_primaries)
         /\ ~Grouped => res.n_events_used > Cardinality(ObservedEvents)
         /\ ~Grouped => res.n_events_used > n_events

C21_Witness ==
    /\ pc = "done" /\ IsDose
    /\ ~Grouped
    /\ res.n_events_used = 3
    /\ n_events = 2
    /\ ~res.warning
    /\ AllOutputs \subseteq out_files
-----------------------------------------------------------------------------
(* The accumulators of the accumulation pass *)

\* Labels at which the accumulators exist: the pass itself and every later
\* step of the run
AccumulatorLabels == {"accum", "uncertainty", "event", "save_arrays", "save_stats", "plots"}

\* A step of the read loop of the accumulation pass that stays in the loop
AccumChunkStep == pc = "accum" /\ pc' = "accum"

NonNegativeWeights == \A i \in DOMAIN env.file : env.file[i].energy >= 0

\* C22: a chunk of the accumulation pass leaves no voxel of sum_w2 (and of
\* the counts of the Cherenkov builder) below its value before the chunk,
\* nor of sum_w when no weight is negative; every other step taken once the
\* arrays exist - the return of the pass, the uncertainty estimation, the
\* event-level pass, saving, plotting - leaves sum_w and sum_w2 as they are
C22_ArraysOnlyGrow ==
    [][/\ AccumChunkStep =>
            /\ DOMAIN sum_w' = DOMAIN sum_w
            /\ DOMAIN sum_w2' = DOMAIN sum_w2
            /\ \A v \in DOMAIN sum_w2 : sum_w2'[v] >= sum_w2[v]
            /\ (IsCherenkov \/ NonNegativeWeights) =>
                   \A v \in DOMAIN sum_w : sum_w'[v] >= sum_w[v]
       /\ (pc \in AccumulatorLabels /\ ~AccumChunkStep) =>
            (sum_w' = sum_w /\ sum_w2' = sum_w2)]_vars

\* A dose run in event mode that is complete, whose accumulators hold a
\* record in the grid
C22_Witness ==
    /\ pc = "done" /\ IsDose /\ env.uncertainty_mode = "event"
    /\ Len(env.file) = 2 /\ env.chunk_size = 1
    /\ \E v \in DOMAIN sum_w : sum_w[v] > 0 /\ sum_w2[v] > 0
    /\ res.n_events_used > 0
-----------------------------------------------------------------------------
(* Termination of the chunked passes.  main() is one sequential process: a
   step that is enabled is taken, which is weak fairness of the next-state
   relation. *)

\* Longest file and largest chunk of the runs checked for termination
FairRecords == 3
FairChunk == 2

\* The first records of one file that has a record in the grid, one on its
\* last edge and one outside it, in two events
FairFiles ==
    {SubSeq(<<Rec(PA, PA, 1, 1), Rec(PLast, PLast, 2, 1), Rec(POut, POut, 1, 2),
              Rec(PA, PA, 1, 2)>>, 1, Min2(n, 4)) : n \in 0..FairRecords}

FairEnvs ==
    {[BaseEnv EXCEPT !.builder = "dose", !.file = f, !.chunk_size = cs, !.use_xyz = ux] :
        f \in FairFiles, cs \in 1..FairChunk, ux \in BOOLEAN}
    \cup {[BaseEnv EXCEPT !.builder = "cherenkov", !.file = f, !.chunk_size = cs] :
             f \in FairFiles, cs \in 1..FairChunk}

InitFair == \E e \in FairEnvs : InitRun(e)

\* main() of both builders with the default --uncertainty-mode fast: the
\* accumulation pass of the Cherenkov builder, and the counting, scanning
\* and accumulation passes of the dose builder
NextFair ==
    \/ C_CheckInputs
    \/ C_GetNPhotons
    \/ ResolvePrimaries
    \/ C_LoadConfig
    \/ MakeGrid
    \/ C_AccumChunk
    \/ C_AccumEnd
    \/ D_CheckInput
    \/ D_LoadConfig
    \/ D_CountChunk
    \/ D_CountEnd
    \/ D_ScanOpen
    \/ D_ScanChunk
    \/ D_ScanEnd
    \/ D_AccumChunk
    \/ D_AccumEnd
    \/ D_FastSigma
    \/ SaveArrays
    \/ SaveStats
    \/ Plots

SpecRunsFair == InitFair /\ [][NextFair]_vars /\ WF_vars(NextFair)

\* file_size / record_width of a file of whole records
RecordCount == FileSize(env, Width) \div Width

\* A step of a read loop that decodes a chunk
ReadStep == pc \in PassLabels /\ total_read' # total_read

\* A step on which a pass returns
PassReturns == pc \in PassLabels /\ pc' \notin {pc, "aborted"}

\* The kernel and the statistics record have the shape of the edges
ShapeOfEdges ==
    /\ pc \in {"save_arrays", "save_stats", "plots", "done"} =>
          /\ DOMAIN res.K = 1..((Len(edges[1]) - 1) * (Len(edges[2]) - 1) * (Len(edges[3]) - 1))
          /\ DOMAIN res.sigma2 = DOMAIN res.K
    /\ ~IsNone(stats) =>
          Val(stats).grid_shape = <<Len(edges[1]) - 1, Len(edges[2]) - 1, Len(edges[3]) - 1>>

\* C23: on a file of whole records and for every chunk size, each read of a
\* pass (the Cherenkov accumulation, the dose counting, scanning and
\* accumulation) takes the next 1..chunk_size records after those already
\* read, a pass returns when it has read file_size / record_width records,
\* the count reported is that number, the kernel has one entry per cell of
\* the edges, and every pass and the run as a whole come to an end
C23_PassesTerminate ==
    /\ [][/\ ReadStep =>
               /\ fpos = total_read * Width
               /\ total_read' - total_read \in 1..env.chunk_size
               /\ fpos' = total_read' * Width
               /\ total_read' <= RecordCount
          /\ PassReturns => total_read' = RecordCount]_vars
    /\ [](ShapeOfEdges)
    /\ []((IsCherenkov /\ ~IsNone(stats)) => Val(stats).photons_read = RecordCount)
    /\ \A l \in PassLabels : (pc = l) ~> (pc # l)
    /\ <>(pc \in {"done", "aborted"})
    /\ (IsCherenkov \/ env.file # <<>> \/ env.use_xyz) => <>(pc = "done")

\* A Cherenkov run of three records read two at a time, complete
C23_Witness ==
    /\ pc = "done" /\ IsCherenkov
    /\ env.chunk_size = 2 /\ Len(env.file) = 3
    /\ total_read = 3
    /\ Val(stats).photons_read = 3
    /\ Len(res.K) = 2
-----------------------------------------------------------------------------
(* The photon count of the Cherenkov builder *)

\* run_meta declares a total_photons that is not file_size / 60
DeclaredCountDiffers ==
    /\ ~IsNone(env.run_meta)
    /\ ~IsNone(Val(env.run_meta).total_photons)
    /\ Val(Val(env.run_meta).total_photons) # FileSize(env, 60) \div 60

\* A header is present and declares a format_version other than 2 or a
\* bytes_per_photon other than 60
DeclaredLayoutDiffers ==
    /\ ~IsNone(env.header)
    /\ \E h \in {Val(env.header)} :
          \/ ~IsNone(h.format_version) /\ Val(h.format_version) # 2
          \/ ~IsNone(h.bytes_per_photon) /\ Val(h.bytes_per_photon) # 60

\* No record has been read and nothing has been allocated or written
NothingRead ==
    /\ fpos = 0 /\ total_read = 0
    /\ sum_w = <<>> /\ edges = <<>>
    /\ out_files = {} /\ IsNone(stats)

\* C24: a Cherenkov run whose run_meta declares a total_photons other than
\* file_size / 60, or whose header declares a format_version other than 2
\* or a bytes_per_photon other than 60, never gets past get_n_photons: it
\* ends with an error and has read no record; when the declarations agree
\* with the file, the count returned is file_size / 60
C24_PhotonCountValidated ==
    IsCherenkov =>
      /\ (DeclaredCountDiffers \/ DeclaredLayoutDiffers) =>
            /\ pc \in {"start", "meta", "aborted"}
            /\ NothingRead
            /\ n_photons = 0
            /\ (pc = "aborted" /\ env.input_exists /\ env.config_exists) => err = "FormatError"
      /\ (pc \notin {"start", "meta", "aborted"}) =>
            /\ n_photons = FileSize(env, 60) \div 60
            /\ FileSize(env, 60) % 60 = 0
      /\ (pc = "aborted" /\ NothingRead /\ err = "FormatError") =>
            \/ DeclaredCountDiffers
            \/ DeclaredLayoutDiffers
            \/ FileSize(env, 60) % 60 # 0

\* A run stopped by a header of format_version 1, with a run_meta that
\* agrees with the file
C24_Witness ==
    /\ IsCherenkov /\ pc = "aborted" /\ err = "FormatError"
    /\ DeclaredLayoutDiffers /\ ~DeclaredCountDiffers
    /\ ~IsNone(env.run_meta) /\ Val(env.run_meta).total_photons = Some(2)
    /\ Val(env.header).format_version = Some(1)
    /\ Val(env.header).bytes_per_photon = Some(60)
    /\ NothingRead
-----------------------------------------------------------------------------
(* The priority of the sources of the primaries count *)

\* The positive count, if any, that each source provides, in the order
\* run_meta["events"], header, config.simulation, --n-primaries.  The header
\* provides the value of its first line that names the primaries with a
\* positive number.
PositiveOrNone(o) == IF ~IsNone(o) /\ Val(o) > 0 THEN o ELSE None
HeaderLines(e) == IF IsNone(e.header) THEN <<>> ELSE Val(e.header).primaries
PositiveLines(e) ==
    {i \in DOMAIN HeaderLines(e) : ~IsNone(PositiveOrNone(HeaderLines(e)[i]))}
SourceCounts(e) ==
    <<IF IsNone(e.run_meta) THEN None ELSE PositiveOrNone(Val(e.run_meta).events),
      IF PositiveLines(e) = {} THEN None
      ELSE HeaderLines(e)[CHOOSE i \in PositiveLines(e) : \A j \in PositiveLines(e) : i <= j],
      IF e.config_exists THEN PositiveOrNone(e.sim_n_primaries) ELSE None,
      PositiveOrNone(e.arg_n_primaries)>>
Providing(e) == {i \in 1..4 : ~IsNone(SourceCounts(e)[i])}

\* The sources below the first one that provides a count, replaced by others
LowerSourcesReplaced(e, k) ==
    {[e EXCEPT !.sim_n_primaries = IF k < 3 THEN sim ELSE e.sim_n_primaries,
               !.arg_n_primaries = IF k < 4 THEN arg ELSE e.arg_n_primaries,
               !.header = IF k < 2 THEN hd ELSE e.header] :
        sim \in {None, Some(0), Some(5)}, arg \in {None, Some(0), Some(5)},
        hd \in {None, Some([primaries |-> <<Some(5)>>, format_version |-> None,
                            bytes_per_photon |-> Some(60)])}}

\* The primaries count has been resolved
PrimariesResolved == pc \notin {"start", "meta", "primaries", "aborted"}

-----------------------------------------------------------------------------
(* The event-level pass as a function of the file alone *)

\* The first record of the run of equal consecutive identifiers that holds
\* record i
RunStartOf(i) == CHOOSE r \in RunStarts : r <= i /\ \A q \in RunStarts : q <= i => q <= r

\* The histogram of the run that starts at record r, in voxel v
RunHist(r, v) ==
    FileWeight({i \in DOMAIN env.file :
                   /\ RunStartOf(i) = r
                   /\ VoxelOf(edges, Cols(env.use_xyz, env.file[i])) = v})

\* The sums over the runs R of H_r and of (H_r - m)^2 in voxel v
RECURSIVE SumRunHist(_, _)
SumRunHist(R, v) ==
    IF R = {} THEN 0
    ELSE LET r == CHOOSE y \in R : TRUE IN RunHist(r, v) + SumRunHist(R \ {r}, v)

RECURSIVE SumRunSquaredDev(_, _, _)
SumRunSquaredDev(R, v, m) ==
    IF R = {} THEN RInt(0)
    ELSE LET r == CHOOSE y \in R : TRUE
             d == RSub(RInt(RunHist(r, v)), m)
         IN  RAdd(RMul(d, d), SumRunSquaredDev(R \ {r}, v, m))

\* The pass run on the whole file as one chunk, last flush included
WholeFileWelford ==
    LET z == [v \in Voxels(edges) |-> RInt(0)]
        st == EventLoop([w |-> [n_ev |-> 0, mean_e |-> z, M2_e |-> z], c |-> CurEventInit],
                        env.file, 1, env.use_xyz, edges)
    IN  IF IsNone(st.c.current_event_id) THEN st.w
        ELSE flush_event(st.w, env.use_xyz, edges, st.c.event_list)

\* C26: whatever the chunk size, the event-level pass returns what it
\* returns when the whole file is one chunk; its result is a function of the
\* runs of equal consecutive identifiers alone: every run is one event with
\* one histogram of all its records, wherever the chunk boundaries fall, and
\* the last run is flushed once at end of file
C26_EventPassChunkIndependent ==
    EventDone =>
        LET n == Cardinality(RunStarts)
            whole == WholeFileWelford
        IN  /\ res.n_events_used = whole.n_ev
            /\ res.n_events_used = n
            /\ IsNone(cur_event.current_event_id) <=> env.file = <<>>
            /\ \A v \in Voxels(edges) :
                  /\ REq(res.sigma2[v], EventSigma2(whole)[v])
                  /\ REq(welford.mean_e[v], whole.mean_e[v])
                  /\ REq(welford.M2_e[v], whole.M2_e[v])
                  /\ n >= 1 =>
                        LET m == <<SumRunHist(RunStarts, v), n>>
                        IN  /\ REq(welford.mean_e[v], m)
                            /\ REq(welford.M2_e[v], SumRunSquaredDev(RunStarts, v, m))

\* A completed pass read one record at a time over a file whose first event
\* has two records, so that it spans a chunk boundary, with a voxel of
\* non-zero variance
C26_Witness ==
    /\ EventDone /\ pc = "done"
    /\ env.chunk_size = 1
    /\ Len(env.file) = 3
    /\ RunStarts = {1, 3}
    /\ res.n_events_used = 2
    /\ \E v \in Voxels(edges) : RLt(RInt(0), res.sigma2[v])
-----------------------------------------------------------------------------
(* The event-level pass against the accumulation pass *)

\* C27: after the event-level pass, n_events_used times the Welford mean is
\* the sum_w of the accumulation pass in every voxel, whether the records of
\* an event are contiguous in the file or not: every record is in the
\* histogram of exactly one flushed event.  The Welford mean is taken in
\* exact arithmetic and the files are such that no sum of weights is
\* rounded.
C27_EventMeanTimesNIsSumW ==
    (EventDone /\ NoRounding) =>
        /\ DOMAIN welford.mean_e = DOMAIN sum_w
        /\ \A v \in DOMAIN sum_w :
              /\ REq(RMul(RInt(res.n_events_used), welford.mean_e[v]), RInt(sum_w[v]))
              /\ sum_w[v] = SumRunHist(RunStarts, v)
        /\ (env.file = <<>>) => res.n_events_used = 0

\* A completed run on a file that returns to an identifier it has left, with
\* energy in the grid
C27_Witness ==
    /\ EventDone /\ pc = "done"
    /\ ~Grouped
    /\ NoRounding
    /\ res.n_events_used = 3
    /\ \E v \in DOMAIN sum_w : sum_w[v] = 3
-----------------------------------------------------------------------------
(* The events of the event-level pass against the events counted *)

\* C28: on a file whose records are grouped by event identifier, the
\* n_events_used of the event-level pass is the number of distinct
\* identifiers that count_unique_events_chunked (default mode) or
\* scan_dose_bounds_chunked (--use-dxdydz) returned as n_events, which is the
\* n_events of the statistics record, for every chunk size
C28_EventsUsedIsEventsCounted ==
    /\ (IsDose /\ pc \in {"grid", "accum", "uncertainty", "event"} \cup {"save_arrays",
                          "save_stats", "plots", "done"}) =>
          n_events = Cardinality(ObservedEvents)
    /\ (EventDone /\ Grouped) =>
          /\ res.n_events_used = n_events
          /\ ~IsNone(stats) => Val(stats).n_events = res.n_events_used

\* A completed --use-dxdydz run over two events, the first of two records,
\* read two records at a time
C28_Witness ==
    /\ EventDone /\ pc = "done" /\ ~env.use_xyz
    /\ Grouped
    /\ env.chunk_size = 2
    /\ RunStarts = {1, 3}
    /\ res.n_events_used = 2
    /\ Val(stats).n_events = 2
-----------------------------------------------------------------------------
(* The dose builder with --use-dxdydz: bounds scanned from the data *)

\* Longest file and largest chunk of the runs with scanned bounds
ScanRecords == 4
ScanChunk == 2

\* The run of test_build_dose_kernel.py: 40 records of 0.1 MeV (one unit of
\* weight) over 4 primaries, read 10 at a time
DOSE_TEST_RECORDS == 40
DOSE_TEST_PRIMARIES == 4
DOSE_TEST_CHUNK == 10

\* Records at two relative positions, of weight 1, and one of a weight that
\* makes a sum round
ScanRecordKinds ==
    {Rec(PInner, PA, 1, 0), Rec(PInner, POut, 1, 0), Rec(PInner, PA, MantLimit, 0)}

DoseTestFile ==
    [i \in 1..DOSE_TEST_RECORDS |->
        Rec(PInner, IF i % 3 = 0 THEN POut ELSE IF i % 3 = 1 THEN PA ELSE PB, 1,
            i % DOSE_TEST_PRIMARIES)]

DoseTestEnv ==
    [BaseEnv EXCEPT !.builder = "dose", !.use_xyz = FALSE, !.file = DoseTestFile,
                    !.chunk_size = DOSE_TEST_CHUNK, !.config_exists = FALSE,
                    !.run_meta = Some([events |-> Some(DOSE_TEST_PRIMARIES),
                                       total_photons |-> None]),
                    !.arg_n_primaries = Some(DOSE_TEST_PRIMARIES)]

ScanEnvs ==
    {[BaseEnv EXCEPT !.builder = "dose", !.use_xyz = FALSE, !.file = f, !.chunk_size = cs] :
        f \in SeqsUpTo(ScanRecordKinds, ScanRecords), cs \in 1..ScanChunk}
    \cup {DoseTestEnv}

InitScan == \E e \in ScanEnvs : InitRun(e)

NextScan ==
    \/ D_CheckInput
    \/ ResolvePrimaries
    \/ D_ScanOpen
    \/ D_ScanChunk
    \/ D_ScanEnd
    \/ MakeGrid
    \/ D_AccumChunk
    \/ D_AccumEnd
    \/ D_FastSigma
    \/ SaveArrays
    \/ SaveStats
    \/ Plots

SpecScan == InitScan /\ [][NextScan]_vars

\* Every record of the file lies in a voxel of the grid
AllInGrid == \A i \in DOMAIN env.file : VoxelOf(edges, Cols(FALSE, env.file[i])) # 0

\* C29 (as stated): in --use-dxdydz mode the outside-grid energy written to
\* the statistics record is 0 and sum(K) * N_primaries is the total energy
\* of all records
C29_DataBoundsExact ==
    DoseStatsWritten =>
        /\ Val(stats).energy_outside_grid_MeV = 0
        /\ Val(stats).total_sum[1] = FileWeight(DOMAIN env.file)

\* C29 (amended): in --use-dxdydz mode every record of the file lies in a
\* voxel of the grid built from the scanned bounds.  The outside-grid energy
\* is computed as the difference of two float sums taken in different
\* orders: when no sum is rounded it is 0, unclamped, and sum(K) *
\* N_primaries is the total energy of all records (40 records of one unit
\* over 4 primaries give sum(K) = 40 / 4); otherwise both hold up to the
\* rounding of the additions, a negative difference being clamped to 0.
C29_DataBoundsUpToRounding ==
    /\ (IsDose /\ AccumDone) =>
          /\ AllInGrid
          /\ \A k \in 1..3 : \A i \in DOMAIN env.file :
                /\ RLt(edges[k][1], RInt(env.file[i].rel[k]))
                /\ RLt(RInt(env.file[i].rel[k]), edges[k][Len(edges[k])])
    /\ DoseStatsWritten =>
          LET s == Val(stats)
              n == Len(env.file)
              t == FileWeight(DOMAIN env.file)
          IN  /\ NoRounding =>
                    /\ s.energy_outside_grid_MeV = 0
                    /\ ~s.energy_outside_clamped
                    /\ s.total_sum = <<t, n_primaries>>
                    /\ s.total_energy_MeV = t
              /\ s.energy_outside_grid_MeV >= 0
              /\ WithinRounding(s.energy_outside_grid_MeV, 0, 2 * n, t)
              /\ WithinRounding(s.total_sum[1], t, n, t)
              /\ env = DoseTestEnv =>
                    REq(s.total_sum, <<DOSE_TEST_RECORDS, DOSE_TEST_PRIMARIES>>)

\* The run of test_build_dose_kernel.py, complete
C29_Witness ==
    /\ pc = "done" /\ env = DoseTestEnv
    /\ AllInGrid
    /\ Val(stats).energy_outside_grid_MeV = 0
    /\ Val(stats).total_sum = <<40, 4>>
    /\ \A v \in DOMAIN sum_w : sum_w[v] > 0
-----------------------------------------------------------------------------
(* The events of the correlation analysis *)

\* C30: in either branch the reported n_events and the length of the
\* per-event photon and dose arrays are the number of distinct event
\* identifiers observed in the two streams
C30_ArraysOverObservedEvents ==
    Aggregated =>
        LET E == Cardinality(ObservedIds)
        IN  /\ corr.n_events_actual = E
            /\ DOMAIN corr.photons_per_event = 0..(E - 1)
            /\ DOMAIN corr.dose_per_event = 0..(E - 1)

====
